---- MODULE Spec2Model ----
(***************************************************************************)
(* A model of lone, the standalone Linux Lisp (src/lone.c).                *)
(*                                                                         *)
(* The module holds one state machine per component of the interpreter:    *)
(*                                                                         *)
(*   SpecTable   one hash table under lone_table_create / lone_table_set / *)
(*               lone_table_get / lone_table_delete                        *)
(*   SpecProto   a prototype chain of three tables under the same          *)
(*               operations and lone_evaluate of a symbol, with a budget   *)
(*               of operations                                             *)
(*   SpecMemory  the block allocator over a small arena of words, under    *)
(*               lone_allocate / lone_deallocate / lone_reallocate         *)
(*   SpecReader  the driver's loop of lone_read, lone_evaluate and         *)
(*               lone_print over an input that the raw reads deliver in    *)
(*               pieces, with raw reads and raw writes that may fail       *)
(*   SpecPrint   lone_parse, lone_print and lone_parse again, on every     *)
(*               short input                                               *)
(*                                                                         *)
(* All components share the module's variables; a specification leaves    *)
(* the variables of the other components at their idle values.             *)
(***************************************************************************)
EXTENDS Integers, Sequences, FiniteSets, TLC

(***************************************************************************)
(* Pointers.  A pointer to a lone_value is a positive identifier; NULL is  *)
(* the null pointer.                                                       *)
(***************************************************************************)
NULL == 0

\* --------------------------------------------------------------- bounds
\* Largest capacity a table of the model grows to (a power of two).
MaxCapacity == 8
\* Number of distinct value pointers stored in tables.
NValues == 2
\* Operations applied to the prototype chain of SpecProto.
MaxProtoOps == 3
\* Largest capacity of a table of the prototype chain.
MaxProtoCapacity == 8

(***************************************************************************)
(* Keys.  A key is a pointer to a Symbol/Text/Bytes value; KeyBytes gives  *)
(* the byte content behind each key pointer.  Keys 1 and 4 are two values  *)
(* with the same content ("x").  The contents are chosen so that at every  *)
(* capacity of the model several keys hash to the last slot (x, h) and one   *)
(* to slot 0 (e).                                                          *)
(***************************************************************************)
KeyBytes == <<  <<120>>, <<104>>, <<101>>, <<120>> >>
KeyIds == 1..Len(KeyBytes)
\* The keys the single-table specification inserts, and the chain's.
TableKeys == {1, 2, 3, 4}
ProtoKeys == {1, 2}
\* The keys a stale entry may hold.
StaleKeys == {1, 2}
ValueIds == 1..NValues

\* The canonical nil a lookup miss returns (a List with both fields absent).
NilValue == -1

\* ------------------------------------------------------------ variables
VARIABLES
    tables,     \* table pointer -> struct lone_table (count, capacity, entries, prototype)
    last,       \* the last table operation and what it returned
    status,     \* "running", or "hung" once a probe loop no longer terminates
    history,    \* per table, what its callers have asked of it: the value last
                \* set under each key content and not deleted since, and whether
                \* the table has only seen lone_table_set calls
    ops,        \* operations applied so far (the budget of a bounded specification)
    memory,     \* the arena, word by word
    live,       \* the payload pointers lone_allocate returned and nobody freed yet
    requested,  \* per live pointer, the size its caller asked for
    values,     \* lone->values: the value store, newest value first
    original,   \* the bytes of the whole input
    stream,     \* the bytes of the input no raw read has delivered yet
    reader,     \* struct lone_reader, and the locals of the read in progress
    returned,   \* the values the lone_read calls returned, in order
    trip,       \* the stages of a parse / print / parse round trip
    output      \* the bytes written to the output, and whether a raw write failed

tableVars == <<tables, history>>
memoryVars == <<memory, live, requested, values>>
readerVars == <<original, stream, reader, returned, trip, output>>
vars == <<tables, last, status, history, ops, memory, live, requested, values,
          original, stream, reader, returned, trip, output>>

(***************************************************************************)
(* Values of the reader: what the lexer and the parser build.  A list is   *)
(* held as the sequence of its elements (the first fields of its cells, in *)
(* order); nil is the list without elements.  NoValue is the null pointer  *)
(* where a value pointer is expected.                                      *)
(***************************************************************************)
NoValue == [type |-> "null"]
Symbol(bytes) == [type |-> "symbol", bytes |-> bytes]
Text(bytes) == [type |-> "text", bytes |-> bytes]
Integer(n) == [type |-> "integer", integer |-> n]
List(items) == [type |-> "list", items |-> items]
Nil == List(<< >>)
IsNil(value) == value = Nil

(***************************************************************************)
(* The evaluator.  found is what lone_table_get returns for the value in   *)
(* lone->environment; only a symbol is looked up.                          *)
(***************************************************************************)
\* lone_evaluate(lone, value)
lone_evaluate(value, found) ==
    IF value = NoValue THEN NoValue
    ELSE IF value.type = "symbol" THEN found
    ELSE value

(***************************************************************************)
(* lone_bytes_equals: byte-length then byte-contents comparison.           *)
(***************************************************************************)
lone_bytes_equals(x, y) ==
    /\ Len(KeyBytes[x]) = Len(KeyBytes[y])
    /\ \A i \in 1..Len(KeyBytes[x]) : KeyBytes[x][i] = KeyBytes[y][i]

(***************************************************************************)
(* fnv_1a.  The 64-bit hash is only ever used modulo the capacity.  The    *)
(* model computes it modulo HashModulus = 2^12: the low 12 bits of x ^ b   *)
(* and of x * FNV_PRIME depend only on the low 12 bits of x, so the result *)
(* modulo any power-of-two capacity up to 4096 is the code's.              *)
(* FNV_PRIME and FNV_OFFSET_BASIS are the low 12 bits of 0x00000100000001B3*)
(* and 0xCBF29CE484222325.                                                 *)
(***************************************************************************)
HashModulus == 2^12
FNV_PRIME == 435
FNV_OFFSET_BASIS == 805

RECURSIVE Xor(_, _)
Xor(a, b) ==
    IF a = 0 THEN b
    ELSE IF b = 0 THEN a
    ELSE (((a % 2) + (b % 2)) % 2) + 2 * Xor(a \div 2, b \div 2)

RECURSIVE fnv_1a_from(_, _, _)
fnv_1a_from(hash, bytes, i) ==
    IF i > Len(bytes) THEN hash
    ELSE fnv_1a_from((Xor(hash, bytes[i]) * FNV_PRIME) % HashModulus, bytes, i + 1)

fnv_1a(bytes) == fnv_1a_from(FNV_OFFSET_BASIS, bytes, 1)

KeyHash == [k \in KeyIds |-> fnv_1a(KeyBytes[k])]

lone_table_compute_hash_for(key, capacity) == KeyHash[key] % capacity

(***************************************************************************)
(* An entries array.  lone_allocate gives every block sizeof(struct        *)
(* lone_memory) bytes more than requested (needed_size), so an array of    *)
(* capacity entries is followed, inside its own block, by room for one     *)
(* more entry that nothing initializes.  The model keeps that slot as      *)
(* entries[capacity]; at allocation it holds whatever the arena held       *)
(* there: zeroes (an empty entry) or a stale entry.                        *)
(***************************************************************************)
EmptyEntry == [key |-> NULL, value |-> NULL]
StaleEntries == {EmptyEntry} \cup [key : StaleKeys, value : {1}]

\* What the loop of lone_table_create / lone_table_resize leaves: entries
\* 0..capacity-1 zeroed, the slot after them as allocated.
ZeroedEntries(capacity, slack) ==
    [i \in 0..capacity |-> IF i < capacity THEN EmptyEntry ELSE slack]

\* The value a probe loop that never returns is given in the model.
Diverges == -2

(***************************************************************************)
(* lone_table_entry_find_index_for.  The loop visits hash, hash+1, ...,    *)
(* capacity (one past the last entry), then 0, 1, ...: after capacity + 1  *)
(* steps it has seen every slot it can ever see and does not terminate.    *)
(***************************************************************************)
RECURSIVE ProbeFrom(_, _, _, _, _)
ProbeFrom(key, entries, capacity, i, fuel) ==
    IF fuel = 0 THEN Diverges
    ELSE IF entries[i].key = NULL \/ lone_bytes_equals(entries[i].key, key) THEN i
    ELSE ProbeFrom(key, entries, capacity, IF i < capacity THEN i + 1 ELSE 0, fuel - 1)

lone_table_entry_find_index_for(key, entries, capacity) ==
    ProbeFrom(key, entries, capacity, lone_table_compute_hash_for(key, capacity), capacity + 1)

(***************************************************************************)
(* lone_table_entry_set: the entries after the call and its return value   *)
(* (1 when a new slot was occupied).                                       *)
(***************************************************************************)
lone_table_entry_set(entries, capacity, key, value) ==
    LET i == lone_table_entry_find_index_for(key, entries, capacity) IN
    IF i = Diverges
    THEN [entries |-> entries, inserted |-> 0, hung |-> TRUE]
    ELSE IF entries[i].key # NULL
    THEN [entries |-> [entries EXCEPT ![i].value = value], inserted |-> 0, hung |-> FALSE]
    ELSE [entries |-> [entries EXCEPT ![i] = [key |-> key, value |-> value]],
          inserted |-> 1, hung |-> FALSE]

(***************************************************************************)
(* lone_table_resize: the new array after rehashing old[0..old_capacity-1] *)
(* in index order.                                                         *)
(***************************************************************************)
RECURSIVE Rehash(_, _, _, _, _)
Rehash(old, old_capacity, new, new_capacity, i) ==
    IF i >= old_capacity THEN new
    ELSE IF old[i].key # NULL
    THEN Rehash(old, old_capacity,
                lone_table_entry_set(new, new_capacity, old[i].key, old[i].value).entries,
                new_capacity, i + 1)
    ELSE Rehash(old, old_capacity, new, new_capacity, i + 1)

lone_table_resize(table, new_capacity, slack) ==
    [table EXCEPT
        !.entries = Rehash(table.entries, table.capacity,
                           ZeroedEntries(new_capacity, slack), new_capacity, 0),
        !.capacity = new_capacity]

(***************************************************************************)
(* size_t.  count is unsigned: a negative integer n of the model stands    *)
(* for 2^64 + n, the value --count leaves when count was 0.                *)
(***************************************************************************)
SizeGe(a, b) == IF (a < 0) = (b < 0) THEN a >= b ELSE a < 0

(***************************************************************************)
(* lone_table_set.  entries and capacity are read before the resize and    *)
(* used after it: when the table was resized, lone_table_entry_set works   *)
(* on the array lone_table_resize has just deallocated, with the old       *)
(* capacity.  The block is free and not yet reused, so the call reads the  *)
(* old contents; what it writes there is not part of the table.            *)
(***************************************************************************)
TableSetResult(table, key, value, slack) ==
    LET resize  == SizeGe(table.count, table.capacity \div 2)
        resized == IF resize THEN lone_table_resize(table, table.capacity * 2, slack)
                   ELSE table
        set     == lone_table_entry_set(table.entries, table.capacity, key, value)
    IN  [table |-> [resized EXCEPT
                      !.entries = IF resize THEN resized.entries ELSE set.entries,
                      !.count = resized.count + set.inserted],
         resized |-> resize,
         hung |-> set.hung]

(***************************************************************************)
(* lone_table_get: the value returned, NilValue for the nil it creates on  *)
(* a terminal miss, Diverges when a probe does not terminate.              *)
(***************************************************************************)
lone_is_nil(value) == value = NilValue

RECURSIVE lone_table_get(_, _, _)
lone_table_get(t, key, depth) ==
    LET table == tables[t]
        i == lone_table_entry_find_index_for(key, table.entries, table.capacity)
    IN  IF i = Diverges \/ depth = 0 THEN Diverges
        ELSE IF table.entries[i].key # NULL THEN table.entries[i].value
        ELSE IF table.prototype # NULL /\ ~lone_is_nil(table.prototype)
        THEN lone_table_get(table.prototype, key, depth - 1)
        ELSE NilValue

(***************************************************************************)
(* lone_table_delete: the backward shift.  i is the slot to vacate, j the  *)
(* slot examined last; the loop ends at the first empty slot among         *)
(* 0..capacity-1 and does not terminate when there is none.                *)
(***************************************************************************)
\* A deletion that only clears the slot it found and moves no later entry.
ClearOnly(entries, capacity, i, j0, fuel) ==
    [entries |-> entries, i |-> i, hung |-> FALSE]

RECURSIVE DeleteShift(_, _, _, _, _)
DeleteShift(entries, capacity, i, j0, fuel) ==
    LET j == (j0 + 1) % capacity IN
    IF fuel = 0 THEN [entries |-> entries, i |-> i, hung |-> TRUE]
    ELSE IF entries[j].key = NULL THEN [entries |-> entries, i |-> i, hung |-> FALSE]
    ELSE LET k == lone_table_compute_hash_for(entries[j].key, capacity) IN
         IF (j > i /\ (k <= i \/ k > j)) \/ (j < i /\ (k <= i /\ k > j))
         THEN DeleteShift([entries EXCEPT ![i] = entries[j]], capacity, j, j, fuel - 1)
         ELSE DeleteShift(entries, capacity, i, j, fuel - 1)

TableDeleteResult(table, key) ==
    LET i == lone_table_entry_find_index_for(key, table.entries, table.capacity) IN
    IF i = Diverges THEN [table |-> table, found |-> FALSE, hung |-> TRUE]
    ELSE IF table.entries[i].key = NULL THEN [table |-> table, found |-> FALSE, hung |-> FALSE]
    ELSE LET s == DeleteShift(table.entries, table.capacity, i, i, 2 * table.capacity + 2) IN
         IF s.hung THEN [table |-> table, found |-> TRUE, hung |-> TRUE]
         ELSE [table |-> [table EXCEPT !.entries = [s.entries EXCEPT ![s.i] = EmptyEntry],
                                       !.count = table.count - 1],
               found |-> TRUE, hung |-> FALSE]

\* ---------------------------------------------------------------- actions
\* The first key pointer with the content of key: names the content.
Content(key) == CHOOSE c \in KeyIds :
    /\ lone_bytes_equals(c, key)
    /\ \A d \in KeyIds : lone_bytes_equals(d, key) => c <= d
Contents == {Content(k) : k \in KeyIds}

\* The history of a table no call has touched.
NoHistory == [pure |-> TRUE, set |-> [c \in Contents |-> NULL]]

NoOp == [op |-> "none", table |-> NULL, key |-> NULL, value |-> NULL,
         result |-> NULL, found |-> FALSE, resized |-> FALSE]

\* lone_table_create(lone, capacity, prototype)
TableCreate(t, capacity, prototype, slack) ==
    /\ status = "running"
    /\ t \notin DOMAIN tables
    /\ tables' = [x \in DOMAIN tables \cup {t} |->
                    IF x = t
                    THEN [count |-> 0, capacity |-> capacity,
                          entries |-> ZeroedEntries(capacity, slack),
                          prototype |-> prototype]
                    ELSE tables[x]]
    /\ last' = [NoOp EXCEPT !.op = "create", !.table = t]
    /\ history' = [x \in DOMAIN tables \cup {t} |-> IF x = t THEN NoHistory ELSE history[x]]
    /\ UNCHANGED status

\* Whether lone_table_set on table t resizes (and so allocates a new array).
NeedsResize(ts, t) ==
    t \in DOMAIN ts /\ SizeGe(ts[t].count, ts[t].capacity \div 2)

\* lone_table_set(lone, table, key, value)
TableSet(t, key, value, slack, limit) ==
    /\ status = "running"
    /\ t \in DOMAIN tables
    /\ LET r == TableSetResult(tables[t], key, value, slack) IN
       /\ r.table.capacity <= limit
       /\ tables' = [tables EXCEPT ![t] = IF r.hung THEN @ ELSE r.table]
       /\ status' = IF r.hung THEN "hung" ELSE status
       /\ last' = [NoOp EXCEPT !.op = "set", !.table = t, !.key = key, !.value = value,
                               !.resized = r.resized]
       /\ history' = [history EXCEPT ![t].set[Content(key)] = value]

\* lone_table_get(lone, table, key)
TableGet(t, key) ==
    /\ status = "running"
    /\ t \in DOMAIN tables
    /\ LET r == lone_table_get(t, key, Cardinality(DOMAIN tables)) IN
       /\ status' = IF r = Diverges THEN "hung" ELSE status
       /\ last' = [NoOp EXCEPT !.op = "get", !.table = t, !.key = key, !.result = r]
    /\ UNCHANGED <<tables, history>>

\* lone_evaluate(lone, value) of the symbol key, with table t as
\* lone->environment: the symbol is looked up with lone_table_get.
EvaluateSymbol(t, key) ==
    /\ status = "running"
    /\ t \in DOMAIN tables
    /\ LET r == lone_evaluate(Symbol(KeyBytes[key]),
                            lone_table_get(t, key, Cardinality(DOMAIN tables))) IN
       /\ status' = IF r = Diverges THEN "hung" ELSE status
       /\ last' = [NoOp EXCEPT !.op = "evaluate", !.table = t, !.key = key, !.result = r]
    /\ UNCHANGED <<tables, history>>

\* lone_table_delete(lone, table, key)
TableDelete(t, key) ==
    /\ status = "running"
    /\ t \in DOMAIN tables
    /\ LET r == TableDeleteResult(tables[t], key) IN
       /\ tables' = [tables EXCEPT ![t] = r.table]
       /\ status' = IF r.hung THEN "hung" ELSE status
       /\ last' = [NoOp EXCEPT !.op = "delete", !.table = t, !.key = key, !.found = r.found]
       /\ history' = [history EXCEPT ![t].pure = FALSE, ![t].set[Content(key)] = NULL]

\* The reader's variables while no input is read.  read_failed and
\* deliveries record what linux_read did: that it reported a failure, and
\* how many of its returns brought bytes.
NoReader == [count |-> 0, position |-> 0, data |-> << >>, remaining_tokens |-> << >>,
             finished |-> FALSE, filling |-> FALSE, size |-> 0, allocated |-> 0,
             total_read |-> 0, read_failed |-> FALSE, deliveries |-> 0]
NoTrip == [stage |-> "none"]
NoOutput == [bytes |-> << >>, failed |-> FALSE]
ReaderIdle ==
    /\ original = << >>
    /\ stream = << >>
    /\ reader = NoReader
    /\ returned = << >>
    /\ trip = NoTrip
    /\ output = NoOutput

TableInit ==
    /\ last = NoOp
    /\ status = "running"
    /\ ops = 0
    /\ memory = << >>
    /\ live = {}
    /\ requested = << >>
    /\ values = << >>
    /\ ReaderIdle

\* ------------------------------------------------------------- SpecTable
Init == TableInit /\ tables = << >> /\ history = << >>

NextTable ==
    \/ \E c \in {2, 4}, slack \in StaleEntries :
          TableCreate(1, c, NULL, slack) /\ UNCHANGED <<ops, memoryVars, readerVars>>
    \/ \E k \in TableKeys, v \in ValueIds :
          \E slack \in IF NeedsResize(tables, 1) THEN StaleEntries ELSE {EmptyEntry} :
             TableSet(1, k, v, slack, MaxCapacity) /\ UNCHANGED <<ops, memoryVars, readerVars>>
    \/ \E k \in TableKeys : TableGet(1, k) /\ UNCHANGED <<ops, memoryVars, readerVars>>
    \/ \E k \in TableKeys : TableDelete(1, k) /\ UNCHANGED <<ops, memoryVars, readerVars>>

SpecTable == Init /\ [][NextTable]_vars

(***************************************************************************)
(* SpecProto: the chain 1 -> 2 -> 3 of tables, table t + 1 the prototype   *)
(* of table t; the last table's prototype is a null pointer or a nil.      *)
(* The chain is built by lone_table_create before the first operation.     *)
(***************************************************************************)
ChainLength == 3
Chain == 1..ChainLength
ChainStale == {EmptyEntry, [key |-> 1, value |-> 1]}
ChainCapacity == 4

InitProto ==
    /\ TableInit
    /\ history = [t \in Chain |-> NoHistory]
    /\ \E root \in {NULL, NilValue}, slack \in ChainStale :
          tables = [t \in Chain |->
                      [count |-> 0, capacity |-> ChainCapacity,
                       entries |-> ZeroedEntries(ChainCapacity,
                                                 IF t = 1 THEN slack ELSE EmptyEntry),
                       prototype |-> IF t = ChainLength THEN root ELSE t + 1]]

Budget == ops < MaxProtoOps /\ ops' = ops + 1

NextProto ==
    \/ \E t \in Chain, k \in ProtoKeys, v \in ValueIds :
          \E slack \in IF NeedsResize(tables, t) THEN ChainStale ELSE {EmptyEntry} :
             TableSet(t, k, v, slack, MaxProtoCapacity) /\ Budget /\ UNCHANGED <<memoryVars, readerVars>>
    \/ \E k \in ProtoKeys : TableGet(1, k) /\ UNCHANGED <<ops, memoryVars, readerVars>>
    \/ \E k \in ProtoKeys : EvaluateSymbol(1, k) /\ UNCHANGED <<ops, memoryVars, readerVars>>
    \/ \E t \in Chain, k \in ProtoKeys : TableDelete(t, k) /\ Budget /\ UNCHANGED <<memoryVars, readerVars>>

SpecProto == InitProto /\ [][NextProto]_vars

(***************************************************************************)
(* The block allocator.  The arena is an array of ArenaWords machine       *)
(* words at address Base; a struct lone_memory header is HeaderWords       *)
(* words (prev, next, free, size) followed by the payload.  Sizes are      *)
(* counted in words.  Every pointer the code follows is read from the      *)
(* arena as the code reads it, so a pointer the code left stale is         *)
(* followed to whatever the words there hold now.                          *)
(***************************************************************************)
\* Words of the arena.
ArenaWords == 41
\* The two request sizes of the model, in words.
SmallRequest == 1
LargeRequest == 10
\* Allocator calls of one behaviour.
MaxMemoryOps == 10

\* sizeof(struct lone_memory) in words, and the offsets of its fields.
HeaderWords == 4
PrevField == 0
NextField == 1
FreeField == 2
SizeField == 3
\* The address of the arena; small integers are not addresses.
Base == 1000

\* The words of the arena mem, and the address behind its last word.
ArenaSize(mem) == Cardinality(DOMAIN mem)
Top(mem) == Base + ArenaSize(mem)

\* Whether a struct lone_memory at address a lies inside the arena.
Mapped(mem, a) == a >= Base /\ a + HeaderWords <= Top(mem)

Load(mem, a) == mem[a - Base]
Store(mem, a, w) == [mem EXCEPT ![a - Base] = w]

\* The outcome of a step that followed a pointer out of the arena.
Fault(mem) == [mem |-> mem, fault |-> TRUE]
Done(mem) == [mem |-> mem, fault |-> FALSE]

\* lone_memory_split(block, used)
lone_memory_split(mem, block, used) ==
    LET excess == Load(mem, block + SizeField) - used
        new    == block + HeaderWords + used
    IN  IF excess >= HeaderWords + 1
        THEN LET m1 == Store(mem, new + NextField, Load(mem, block + NextField))
                 m2 == Store(m1, new + PrevField, block)
                 m3 == Store(m2, new + FreeField, 1)
                 m4 == Store(m3, new + SizeField, excess - HeaderWords)
                 m5 == Store(m4, block + NextField, new)
             IN  Store(m5, block + SizeField, Load(m5, block + SizeField) - excess)
        ELSE mem

\* lone_memory_coalesce(block)
lone_memory_coalesce(mem, block) ==
    IF block = NULL THEN Done(mem)
    ELSE IF ~Mapped(mem, block) THEN Fault(mem)
    ELSE IF Load(mem, block + FreeField) = 0 THEN Done(mem)
    ELSE LET next == Load(mem, block + NextField) IN
         IF next = NULL THEN Done(mem)
         ELSE IF ~Mapped(mem, next) THEN Fault(mem)
         ELSE IF Load(mem, next + FreeField) = 0 THEN Done(mem)
         ELSE LET m1 == Store(mem, block + SizeField,
                              Load(mem, block + SizeField)
                                + Load(mem, next + SizeField) + HeaderWords)
                  after == Load(m1, next + NextField)
                  m2 == Store(m1, block + NextField, after)
              IN  IF after = NULL THEN Done(m2)
                  ELSE IF ~Mapped(m2, after) THEN Fault(m2)
                  ELSE Done(Store(m2, after + PrevField, block))

\* The first-fit scan of lone_allocate: the block found, NULL when the list
\* ends without one, Diverges when the scan leaves the arena or never ends.
RECURSIVE FirstFit(_, _, _, _)
FirstFit(mem, block, needed_size, fuel) ==
    IF block = NULL THEN NULL
    ELSE IF fuel = 0 \/ ~Mapped(mem, block) THEN Diverges
    ELSE IF Load(mem, block + FreeField) # 0 /\ Load(mem, block + SizeField) >= needed_size
         THEN block
    ELSE FirstFit(mem, Load(mem, block + NextField), needed_size, fuel - 1)

\* lone_allocate(lone, requested_size): the arena after the call and the
\* pointer returned; exit when no block fits.
lone_allocate(mem, requested_size) ==
    LET needed_size == requested_size + HeaderWords
        block == FirstFit(mem, Base, needed_size, ArenaSize(mem))
    IN  IF block = NULL THEN [mem |-> mem, pointer |-> NULL, end |-> "exit"]
        ELSE IF block = Diverges THEN [mem |-> mem, pointer |-> NULL, end |-> "fault"]
        ELSE IF Load(mem, block + SizeField) - needed_size >= HeaderWords + 1
                /\ ~Mapped(mem, block + HeaderWords + needed_size)
             THEN [mem |-> mem, pointer |-> NULL, end |-> "fault"]
        ELSE [mem |-> lone_memory_split(Store(mem, block + FreeField, 0), block, needed_size),
              pointer |-> block + HeaderWords, end |-> "return"]

\* lone_deallocate(lone, pointer)
lone_deallocate(mem, pointer) ==
    LET block == pointer - HeaderWords
        c1 == lone_memory_coalesce(Store(mem, block + FreeField, 1), block)
    IN  IF c1.fault THEN c1
        ELSE lone_memory_coalesce(c1.mem, Load(c1.mem, block + PrevField))

\* lone_memory_move(from, to, count): byte by byte, forwards when the
\* destination is at or behind the source, else backwards.
RECURSIVE MoveForwards(_, _, _, _)
MoveForwards(mem, source, destination, count) ==
    IF count = 0 THEN mem
    ELSE MoveForwards(Store(mem, destination, Load(mem, source)),
                      source + 1, destination + 1, count - 1)

RECURSIVE MoveBackwards(_, _, _, _)
MoveBackwards(mem, source, destination, count) ==
    IF count = 0 THEN mem
    ELSE MoveBackwards(Store(mem, destination - 1, Load(mem, source - 1)),
                       source - 1, destination - 1, count - 1)

lone_memory_move(mem, from, to, count) ==
    IF from >= to THEN MoveForwards(mem, from, to, count)
    ELSE MoveBackwards(mem, from + count, to + count, count)

\* lone_reallocate(lone, pointer, size) on a pointer that is not null
lone_reallocate(mem, pointer, size) ==
    LET old == pointer - HeaderWords
        a   == lone_allocate(mem, size)
    IN  IF a.end # "return" THEN a
        ELSE LET new      == a.pointer - HeaderWords
                 new_size == Load(a.mem, new + SizeField)
                 old_size == Load(a.mem, old + SizeField)
                 count    == IF new_size < old_size THEN new_size ELSE old_size
             IN  IF pointer + count > Top(mem) \/ a.pointer + count > Top(mem)
                 THEN [mem |-> a.mem, pointer |-> NULL, end |-> "fault"]
                 ELSE LET d == lone_deallocate(
                                  lone_memory_move(a.mem, pointer, a.pointer, count), pointer)
                      IN  [mem |-> d.mem, pointer |-> a.pointer,
                           end |-> IF d.fault THEN "fault" ELSE "return"]

\* lone_lisp_initialize(lone, memory, size): one free block over a zeroed arena.
lone_lisp_initialize(size) ==
    [i \in 0..(size - 1) |->
        IF i = FreeField THEN 1
        ELSE IF i = SizeField THEN size - HeaderWords
        ELSE 0]

InitialArena == lone_lisp_initialize(ArenaWords)

MemoryNoOp == [op |-> "none", pointer |-> NULL, size |-> 0, result |-> NULL]

\* What a call leaves behind: "running" after a return, else how it ended.
After(end) == IF end = "return" THEN "running" ELSE end

\* The words a caller stores in the memory it asked for.
ClientWords == {Base + SizeField}

\* The caller storing one word all over the count words it asked for.
RECURSIVE Fill(_, _, _, _)
Fill(mem, pointer, count, word) ==
    IF count = 0 THEN mem
    ELSE Fill(Store(mem, pointer, word), pointer + 1, count - 1, word)

\* The sizes asked for, once pointer stands for size words.
Asking(pointer, size) ==
    [p \in live \cup {pointer} |-> IF p = pointer THEN size ELSE requested[p]]

\* lone_allocate(lone, size), after which the caller stores its data in the
\* memory returned; a is what lone_allocate did.
Allocated(size, word, a) ==
    /\ memory' = IF a.end = "return" THEN Fill(a.mem, a.pointer, size, word) ELSE a.mem
    /\ live' = IF a.end = "return" THEN live \cup {a.pointer} ELSE live
    /\ requested' = IF a.end = "return" THEN Asking(a.pointer, size) ELSE requested
    /\ status' = After(a.end)
    /\ last' = [op |-> "allocate", pointer |-> NULL, size |-> size, result |-> a.pointer]

Allocate(size, word) ==
    /\ status = "running"
    /\ Allocated(size, word, lone_allocate(memory, size))

Deallocate(pointer) ==
    /\ status = "running"
    /\ pointer \in live
    /\ LET d == lone_deallocate(memory, pointer) IN
       /\ memory' = d.mem
       /\ live' = live \ {pointer}
       /\ requested' = [p \in live \ {pointer} |-> requested[p]]
       /\ status' = IF d.fault THEN "fault" ELSE "running"
       /\ last' = [op |-> "deallocate", pointer |-> pointer, size |-> 0, result |-> NULL]

\* lone_reallocate(lone, pointer, size); r is what it did.
Reallocated(pointer, size, r) ==
    /\ memory' = r.mem
    /\ live' = IF r.end = "return" THEN (live \ {pointer}) \cup {r.pointer} ELSE live
    /\ requested' = IF r.end = "return"
                    THEN [p \in (live \ {pointer}) \cup {r.pointer} |->
                            IF p = r.pointer THEN size ELSE requested[p]]
                    ELSE requested
    /\ status' = After(r.end)
    /\ last' = [op |-> "reallocate", pointer |-> pointer, size |-> size,
                result |-> r.pointer]

Reallocate(pointer, size) ==
    /\ status = "running"
    /\ pointer \in live
    /\ Reallocated(pointer, size, lone_reallocate(memory, pointer, size))

\* lone_allocate(lone, size) at once followed by lone_deallocate of the
\* pointer it returned; a is what lone_allocate did.
Cycled(size, a) ==
    /\ memory' = IF a.end = "return" THEN lone_deallocate(a.mem, a.pointer).mem ELSE a.mem
    /\ status' = IF a.end # "return" THEN After(a.end)
                 ELSE IF lone_deallocate(a.mem, a.pointer).fault THEN "fault"
                 ELSE "running"
    /\ last' = [op |-> "cycle", pointer |-> a.pointer, size |-> size, result |-> a.pointer]

Cycle(size) ==
    /\ status = "running"
    /\ Cycled(size, lone_allocate(memory, size))
    /\ UNCHANGED <<live, requested>>

\* ------------------------------------------------------------ SpecMemory
MemoryBudget == ops < MaxMemoryOps /\ ops' = ops + 1
RequestSizes == {SmallRequest, LargeRequest}

InitMemory ==
    /\ tables = << >>
    /\ history = << >>
    /\ last = MemoryNoOp
    /\ status = "running"
    /\ ops = 0
    /\ memory = InitialArena
    /\ live = {}
    /\ requested = << >>
    /\ values = << >>
    /\ ReaderIdle

NextMemory ==
    \/ \E size \in RequestSizes, word \in ClientWords :
          Allocate(size, word) /\ MemoryBudget /\ UNCHANGED <<values, tableVars, readerVars>>
    \/ \E pointer \in live :
          Deallocate(pointer) /\ MemoryBudget /\ UNCHANGED <<values, tableVars, readerVars>>
    \/ \E pointer \in live, size \in RequestSizes :
          Reallocate(pointer, size) /\ MemoryBudget /\ UNCHANGED <<values, tableVars, readerVars>>
    \/ \E size \in RequestSizes :
          Cycle(size) /\ MemoryBudget /\ UNCHANGED <<values, tableVars, readerVars>>

SpecMemory == InitMemory /\ [][NextMemory]_vars

(***************************************************************************)
(* The value store.  Every value lives in a struct lone_values node that   *)
(* lone_value_create allocates and links in front of lone->values.  The    *)
(* model keeps three words of a node: next, the type of the value and the  *)
(* one pointer of the union that owns memory (bytes.pointer of a Symbol,   *)
(* Text or Bytes, table.entries of a Table).  values holds, newest first,  *)
(* what the callers know of each value: its node, its type and the memory  *)
(* it owns; lone->values is the node of its first element.                 *)
(***************************************************************************)
NodeWords == 3
NextOffset == 0
TypeOffset == 1
PointerOffset == 2
\* enum lone_type
LONE_LIST == 0
LONE_TABLE == 1
LONE_SYMBOL == 2
LONE_TEXT == 3
LONE_BYTES == 4
LONE_INTEGER == 5
\* Words of a struct lone_table_entry (key, value).
EntryWords == 2
\* Words of the byte buffer of a Symbol, Text or Bytes of the model.
BufferWords == 1
\* Values created and tables resized in one run of SpecStore.
MaxStoreOps == 4

StoreHead(store) == IF store = << >> THEN NULL ELSE store[1].node

\* lone_value_create(lone): the node is allocated and linked; its next
\* field is written only when the store is not empty.
lone_value_create(mem, head) ==
    LET a == lone_allocate(mem, NodeWords) IN
    [mem |-> IF a.end = "return" /\ head # NULL
             THEN Store(a.mem, a.pointer + NextOffset, head) ELSE a.mem,
     node |-> a.pointer, end |-> a.end]

\* The node of a value once its constructor has stored type and pointer.
Typed(mem, node, type, pointer) ==
    Store(Store(mem, node + TypeOffset, type), node + PointerOffset, pointer)

\* lone_bytes_create(lone, pointer, count) and, for the types Symbol and
\* Text, lone_symbol_create and lone_text_create: the bytes are copied into
\* memory of their own.  created is what lone_value_create did and copy
\* what lone_allocate(lone, count) did after it.
BytesCreated(created, copy, type, word) ==
    IF created.end # "return" THEN [mem |-> created.mem, end |-> created.end,
                                    node |-> NULL, pointer |-> NULL]
    ELSE IF copy.end # "return" THEN [mem |-> copy.mem, end |-> copy.end,
                                      node |-> created.node, pointer |-> NULL]
    ELSE [mem |-> Typed(Fill(copy.mem, copy.pointer, BufferWords, word),
                        created.node, type, copy.pointer),
          end |-> "return", node |-> created.node, pointer |-> copy.pointer]

lone_bytes_create(mem, head, type, word) ==
    BytesCreated(lone_value_create(mem, head),
                 lone_allocate(lone_value_create(mem, head).mem, BufferWords), type, word)

\* lone_list_create and lone_integer_create: a node and nothing else.  The
\* union holds first and rest, or the integer, none of which owns memory.
PlainCreated(created, type) ==
    [mem |-> IF created.end = "return" THEN Typed(created.mem, created.node, type, NULL)
             ELSE created.mem,
     end |-> created.end, node |-> created.node, pointer |-> NULL]

lone_list_create(mem, head, type) == PlainCreated(lone_value_create(mem, head), type)

\* lone_table_create(lone, capacity, prototype): a node and an entries
\* array of capacity zeroed entries.
TableCreated(created, entries, capacity) ==
    IF created.end # "return" THEN [mem |-> created.mem, end |-> created.end,
                                    node |-> NULL, pointer |-> NULL]
    ELSE IF entries.end # "return" THEN [mem |-> entries.mem, end |-> entries.end,
                                         node |-> created.node, pointer |-> NULL]
    ELSE [mem |-> Typed(Fill(entries.mem, entries.pointer, capacity * EntryWords, 0),
                        created.node, LONE_TABLE, entries.pointer),
          end |-> "return", node |-> created.node, pointer |-> entries.pointer]

lone_table_create(mem, head, capacity) ==
    TableCreated(lone_value_create(mem, head),
                 lone_allocate(lone_value_create(mem, head).mem, capacity * EntryWords),
                 capacity)

\* What lone_table_resize does to the memory of an empty table: a new
\* zeroed array is allocated, the old one deallocated and table.entries set.
StoreResized(new, node, old, new_capacity) ==
    IF new.end # "return" THEN [mem |-> new.mem, end |-> new.end, pointer |-> old]
    ELSE LET zeroed == Fill(new.mem, new.pointer, new_capacity * EntryWords, 0)
             d == lone_deallocate(zeroed, old)
         IN  [mem |-> Store(d.mem, node + PointerOffset, new.pointer),
              end |-> IF d.fault THEN "fault" ELSE "return",
              pointer |-> new.pointer]

\* Whether lone_deallocate can be handed a pointer without leaving the arena.
Freeable(mem, pointer) == Mapped(mem, pointer - HeaderWords)

\* lone_deallocate_all(lone): the walk over the nodes from value on; freed
\* collects the pointers handed to lone_deallocate, in order.
RECURSIVE DeallocateFrom(_, _, _, _)
DeallocateFrom(mem, value, freed, fuel) ==
    IF value = NULL THEN [mem |-> mem, freed |-> freed, fault |-> FALSE]
    ELSE IF fuel = 0 \/ ~Freeable(mem, value) \/ value + NodeWords > Top(mem)
         THEN [mem |-> mem, freed |-> freed, fault |-> TRUE]
    ELSE LET next == Load(mem, value + NextOffset)
             owns == Load(mem, value + TypeOffset) \in {LONE_SYMBOL, LONE_TEXT, LONE_BYTES}
             pointer == Load(mem, value + PointerOffset)
         IN  IF owns /\ ~Freeable(mem, pointer)
             THEN [mem |-> mem, freed |-> freed, fault |-> TRUE]
             ELSE LET d1 == IF owns THEN lone_deallocate(mem, pointer) ELSE Done(mem)
                      d2 == lone_deallocate(d1.mem, value)
                      f2 == (IF owns THEN Append(freed, pointer) ELSE freed) \o <<value>>
                  IN  IF d1.fault \/ d2.fault
                      THEN [mem |-> d2.mem, freed |-> f2, fault |-> TRUE]
                      ELSE DeallocateFrom(d2.mem, next, f2, fuel - 1)

lone_deallocate_all(mem, head) == DeallocateFrom(mem, head, << >>, ArenaSize(mem))

\* The memory the callers hold once a constructor has returned r.
Holding(r) ==
    live \cup (IF r.node # NULL THEN {r.node} ELSE {})
         \cup (IF r.pointer # NULL THEN {r.pointer} ELSE {})

\* A constructor has run: r is what it did, type the type it stored and
\* words the size of the memory the value owns.
Created(r, type, words) ==
    /\ memory' = r.mem
    /\ status' = After(r.end)
    /\ live' = Holding(r)
    /\ requested' = [p \in Holding(r) |->
                        IF p = r.node THEN NodeWords
                        ELSE IF p = r.pointer THEN words ELSE requested[p]]
    /\ values' = IF r.end = "return"
                 THEN <<[node |-> r.node, type |-> type, pointer |-> r.pointer]>> \o values
                 ELSE values
    /\ last' = [op |-> "create", pointer |-> r.pointer, size |-> words, result |-> r.node]

CreateBytes(type, word) ==
    /\ status = "running"
    /\ Created(lone_bytes_create(memory, StoreHead(values), type, word), type, BufferWords)

CreateList(type) ==
    /\ status = "running"
    /\ Created(lone_list_create(memory, StoreHead(values), type), type, 0)

CreateTable(capacity) ==
    /\ status = "running"
    /\ Created(lone_table_create(memory, StoreHead(values), capacity), LONE_TABLE,
               capacity * EntryWords)

\* lone_table_resize(lone, table, new_capacity) on the table values[i]; r is
\* what it did to the memory.
Resized(i, words, r) ==
    /\ memory' = r.mem
    /\ status' = After(r.end)
    /\ live' = IF r.end = "exit" THEN live
               ELSE (live \ {values[i].pointer}) \cup {r.pointer}
    /\ requested' = IF r.end = "exit" THEN requested
                    ELSE [p \in (live \ {values[i].pointer}) \cup {r.pointer} |->
                            IF p = r.pointer THEN words ELSE requested[p]]
    /\ values' = [values EXCEPT ![i].pointer = r.pointer]
    /\ last' = [op |-> "resize", pointer |-> values[i].pointer, size |-> words,
                result |-> r.pointer]

ResizeTable(i) ==
    /\ status = "running"
    /\ i \in DOMAIN values
    /\ values[i].type = LONE_TABLE
    /\ Resized(i, 2 * requested[values[i].pointer],
               StoreResized(lone_allocate(memory, 2 * requested[values[i].pointer]),
                            values[i].node, values[i].pointer,
                            (2 * requested[values[i].pointer]) \div EntryWords))

\* lone_deallocate_all(lone); d is what the walk did.
DeallocatedAll(d) ==
    /\ memory' = d.mem
    /\ status' = IF d.fault THEN "fault" ELSE "running"
    /\ live' = live \ {d.freed[i] : i \in 1..Len(d.freed)}
    /\ requested' = [p \in live \ {d.freed[i] : i \in 1..Len(d.freed)} |-> requested[p]]
    /\ values' = << >>
    /\ last' = [op |-> "deallocate_all", pointer |-> NULL, size |-> 0, result |-> NULL,
                freed |-> d.freed]

DeallocateAll ==
    /\ status = "running"
    /\ values # << >>
    /\ DeallocatedAll(lone_deallocate_all(memory, StoreHead(values)))

\* lone_table_get(lone, table, key) has missed in the table values[i],
\* which has no prototype, and returns lone_list_create_nil(lone); r is
\* what that call did.
GotNil(i, r) ==
    /\ memory' = r.mem
    /\ status' = After(r.end)
    /\ live' = Holding(r)
    /\ requested' = [p \in Holding(r) |-> IF p = r.node THEN NodeWords ELSE requested[p]]
    /\ values' = IF r.end = "return"
                 THEN <<[node |-> r.node, type |-> LONE_LIST, pointer |-> r.pointer]>> \o values
                 ELSE values
    /\ last' = [op |-> "get", pointer |-> values[i].pointer, size |-> 0, result |-> r.node]

\* lone_table_get of a key whose slot in the entries of values[i] is empty.
GetMissing(i, key) ==
    /\ status = "running"
    /\ i \in DOMAIN values
    /\ values[i].type = LONE_TABLE
    /\ Load(memory, values[i].pointer
                      + EntryWords * lone_table_compute_hash_for(
                                         key, requested[values[i].pointer] \div EntryWords))
          = NULL
    /\ GotNil(i, lone_list_create(memory, StoreHead(values), LONE_LIST))

\* ------------------------------------------------------------- SpecStore
StoreBudget == ops < MaxStoreOps /\ ops' = ops + 1
Capacities == {1, 2}

NextStore ==
    \/ \E type \in {LONE_SYMBOL, LONE_TEXT, LONE_BYTES}, word \in {7} \cup ClientWords :
          CreateBytes(type, word) /\ StoreBudget /\ UNCHANGED <<tableVars, readerVars>>
    \/ \E type \in {LONE_LIST, LONE_INTEGER} :
          CreateList(type) /\ StoreBudget /\ UNCHANGED <<tableVars, readerVars>>
    \/ \E capacity \in Capacities :
          CreateTable(capacity) /\ StoreBudget /\ UNCHANGED <<tableVars, readerVars>>
    \/ \E i \in DOMAIN values :
          ResizeTable(i) /\ StoreBudget /\ UNCHANGED <<tableVars, readerVars>>
    \/ \E i \in DOMAIN values, key \in KeyIds :
          GetMissing(i, key) /\ StoreBudget /\ UNCHANGED <<tableVars, readerVars>>
    \/ DeallocateAll /\ UNCHANGED <<ops, tableVars, readerVars>>

SpecStore == InitMemory /\ [][NextStore]_vars

\* The bytes the lexer tells apart.
Tab == 9
Newline == 10
Space == 32
Quote == 34
LeftParenthesis == 40
RightParenthesis == 41
Plus == 43
Minus == 45
Zero == 48
Nine == 57

\* lone_lexer_match_byte(byte, target)
lone_lexer_match_byte(byte, target) ==
    IF target = Space THEN byte \in {Space, Tab, Newline}
    ELSE IF target >= Zero /\ target <= Nine THEN byte >= Zero /\ byte <= Nine
    ELSE byte = target

(***************************************************************************)
(* The lexer.  A pointer into the input is the index of its byte, counted  *)
(* from 1; NULL is the null pointer.  The byte one past the input is not   *)
(* part of it: reading it yields whatever the memory behind the input      *)
(* holds (slack).                                                          *)
(***************************************************************************)
\* lone_lexer_peek_k(lexer, k)
lone_lexer_peek_k(input, position, k) ==
    IF position + k >= Len(input) THEN NULL ELSE position + k + 1

lone_lexer_peek(input, position) == lone_lexer_peek_k(input, position, 0)

\* *pointer, for a pointer into the input or one past it
Byte(input, pointer, slack) ==
    IF pointer <= Len(input) THEN input[pointer] ELSE slack

(***************************************************************************)
(* long.  The words of the model have WordBits bits.  Arithmetic on long   *)
(* that leaves the range is computed in the machine's two's complement     *)
(* words: the result wraps.                                                *)
(***************************************************************************)
WordBits == 16
MinWord == -(2 ^ (WordBits - 1))
MaxWord == 2 ^ (WordBits - 1) - 1
Wrap(n) == ((n - MinWord) % (2 ^ WordBits)) + MinWord

\* n / d and n % d of C for d > 0: the quotient is truncated towards zero.
Quotient(n, d) == IF n >= 0 THEN n \div d ELSE -((-n) \div d)
Remainder(n, d) == n - d * Quotient(n, d)

\* lone_integer_parse(lone, digits, count)
RECURSIVE ParseDigits(_, _, _)
ParseDigits(digits, i, integer) ==
    IF i > Len(digits) THEN integer
    ELSE ParseDigits(digits, i + 1, Wrap(Wrap(integer * 10) + (digits[i] - Zero)))

\* A parse that reads the digits and forgets the sign in front of them.
ParseMagnitude(digits) ==
    Integer(ParseDigits(digits, IF digits[1] \in {Plus, Minus} THEN 2 ELSE 1, 0))

lone_integer_parse(digits) ==
    LET i == IF digits[1] \in {Plus, Minus} THEN 2 ELSE 1
        integer == ParseDigits(digits, i, 0)
    IN  Integer(IF digits[1] = Minus THEN Wrap(integer * (-1)) ELSE integer)

\* The position after the run of bytes the loop of a consumer accepts.
RECURSIVE SkipDigits(_, _)
SkipDigits(input, position) ==
    LET current == lone_lexer_peek(input, position) IN
    IF current # NULL /\ lone_lexer_match_byte(input[current], Zero + 1)
    THEN SkipDigits(input, position + 1)
    ELSE position

RECURSIVE SkipSymbol(_, _)
SkipSymbol(input, position) ==
    LET current == lone_lexer_peek(input, position) IN
    IF current # NULL /\ input[current] # RightParenthesis
                      /\ ~lone_lexer_match_byte(input[current], Space)
    THEN SkipSymbol(input, position + 1)
    ELSE position

RECURSIVE SkipText(_, _)
SkipText(input, position) ==
    LET current == lone_lexer_peek(input, position) IN
    IF current # NULL /\ input[current] # Quote
    THEN SkipText(input, position + 1)
    ELSE position

\* What a consumer reports: whether it failed, the token it made, the
\* position it left the lexer at, and whether it followed a bad pointer.
Consumed(failed, token, position) ==
    [failed |-> failed, token |-> token, position |-> position, fault |-> FALSE]

\* lone_lexer_consume_number(lone, lexer, list)
lone_lexer_consume_number(input, position) ==
    LET start == lone_lexer_peek(input, position) IN
    IF start = NULL THEN Consumed(TRUE, NoValue, position)
    ELSE LET signed  == input[start] \in {Plus, Minus}
             p1      == IF signed THEN position + 1 ELSE position
             current == lone_lexer_peek(input, p1)
         IN  IF ~(current # NULL /\ lone_lexer_match_byte(input[current], Zero + 1))
             THEN Consumed(TRUE, NoValue, p1)
             ELSE LET p2   == SkipDigits(input, p1 + 1)
                      stop == lone_lexer_peek(input, p2)
                  IN  IF stop # NULL /\ input[stop] # RightParenthesis
                                     /\ ~lone_lexer_match_byte(input[stop], Space)
                      THEN Consumed(TRUE, NoValue, p2)
                      ELSE Consumed(FALSE,
                                    lone_integer_parse(SubSeq(input, start, p2)), p2)

\* lone_lexer_consume_symbol(lone, lexer, list)
lone_lexer_consume_symbol(input, position) ==
    LET start == lone_lexer_peek(input, position) IN
    IF start = NULL THEN Consumed(TRUE, NoValue, position)
    ELSE LET p1 == SkipSymbol(input, position)
         IN  Consumed(FALSE, Symbol(SubSeq(input, start, p1)), p1)

\* lone_lexer_consume_text(lone, lexer, list).  After the loop current is
\* the closing quote or, in a text that is not closed, the null pointer;
\* it is incremented and read without a test.
lone_lexer_consume_text(input, position, slack) ==
    LET start == lone_lexer_peek(input, position) IN
    IF start = NULL \/ input[start] # Quote THEN Consumed(TRUE, NoValue, position)
    ELSE LET p1      == SkipText(input, position + 1)
             current == lone_lexer_peek(input, p1)
         IN  IF current = NULL
             THEN [failed |-> TRUE, token |-> NoValue, position |-> p1 + 1, fault |-> TRUE]
             ELSE LET byte == Byte(input, current + 1, slack) IN
                  IF byte # RightParenthesis /\ ~lone_lexer_match_byte(byte, Space)
                  THEN Consumed(TRUE, NoValue, p1 + 1)
                  ELSE Consumed(FALSE, Text(SubSeq(input, start + 1, p1)), p1 + 1)

\* A parenthesis rule that makes its token and leaves the position alone.
ParenthesisNotConsumed(input, position) ==
    LET parenthesis == lone_lexer_peek(input, position) IN
    IF parenthesis = NULL THEN Consumed(TRUE, NoValue, position)
    ELSE IF input[parenthesis] \in {LeftParenthesis, RightParenthesis}
    THEN Consumed(FALSE, Symbol(<<input[parenthesis]>>), position)
    ELSE Consumed(TRUE, NoValue, position)

\* lone_lexer_consume_parenthesis(lone, lexer, list)
lone_lexer_consume_parenthesis(input, position) ==
    LET parenthesis == lone_lexer_peek(input, position) IN
    IF parenthesis = NULL THEN Consumed(TRUE, NoValue, position)
    ELSE IF input[parenthesis] \in {LeftParenthesis, RightParenthesis}
    THEN Consumed(FALSE, Symbol(<<input[parenthesis]>>), position + 1)
    ELSE Consumed(TRUE, NoValue, position)

\* The consumer lone_lex picks for the byte at the lexer's position.
LexToken(input, position, slack) ==
    LET c == input[lone_lexer_peek(input, position)] IN
    IF c \in {Plus, Minus}
    THEN LET c1 == lone_lexer_peek_k(input, position, 1) IN
         IF c1 # NULL /\ lone_lexer_match_byte(input[c1], Zero + 1)
         THEN lone_lexer_consume_number(input, position)
         ELSE lone_lexer_consume_symbol(input, position)
    ELSE IF c >= Zero /\ c <= Nine THEN lone_lexer_consume_number(input, position)
    ELSE IF c = Quote THEN lone_lexer_consume_text(input, position, slack)
    ELSE IF c \in {LeftParenthesis, RightParenthesis}
    THEN lone_lexer_consume_parenthesis(input, position)
    ELSE lone_lexer_consume_symbol(input, position)

\* lone_lex(lone, lexer): the tokens, or how the process ended instead.
RECURSIVE LexFrom(_, _, _, _)
LexFrom(input, position, tokens, slack) ==
    IF lone_lexer_peek(input, position) = NULL THEN [tokens |-> tokens, end |-> "return"]
    ELSE IF lone_lexer_match_byte(input[lone_lexer_peek(input, position)], Space)
    THEN LexFrom(input, position + 1, tokens, slack)
    ELSE LET t == LexToken(input, position, slack) IN
         IF t.fault THEN [tokens |-> tokens, end |-> "fault"]
         ELSE IF t.failed THEN [tokens |-> tokens, end |-> "exit"]
         ELSE LexFrom(input, t.position, Append(tokens, t.token), slack)

lone_lex(input, slack) == LexFrom(input, 0, << >>, slack)

(***************************************************************************)
(* The parser.  tokens is the list of tokens not yet consumed.             *)
(***************************************************************************)
IsParenthesis(token, byte) == token.type = "symbol" /\ token.bytes[1] = byte

RECURSIVE lone_parse_tokens(_)
RECURSIVE ParseListFrom(_, _)

\* The loop of lone_parse_list: NoValue when the tokens end before the list.
ParseListFrom(tokens, items) ==
    IF tokens = << >> THEN [value |-> NoValue, tokens |-> tokens, end |-> "return"]
    ELSE IF IsParenthesis(Head(tokens), RightParenthesis)
    THEN [value |-> List(items), tokens |-> Tail(tokens), end |-> "return"]
    ELSE LET r == lone_parse_tokens(tokens) IN
         IF r.end # "return" THEN r
         ELSE ParseListFrom(r.tokens, Append(items, r.value))

lone_parse_list(tokens) == ParseListFrom(tokens, << >>)

\* A parser that takes a closing parenthesis met outside a list for a value.
ParseAnyToken(tokens) ==
    IF tokens = << >> THEN [value |-> Nil, tokens |-> tokens, end |-> "return"]
    ELSE LET token == Head(tokens) IN
         IF IsParenthesis(token, LeftParenthesis) THEN lone_parse_list(Tail(tokens))
         ELSE [value |-> token, tokens |-> Tail(tokens), end |-> "return"]

\* lone_parse_tokens(lone, tokens)
lone_parse_tokens(tokens) ==
    IF tokens = << >> THEN [value |-> Nil, tokens |-> tokens, end |-> "return"]
    ELSE LET token == Head(tokens) IN
         IF IsParenthesis(token, LeftParenthesis) THEN lone_parse_list(Tail(tokens))
         ELSE IF IsParenthesis(token, RightParenthesis)
         THEN [value |-> NoValue, tokens |-> Tail(tokens), end |-> "exit"]
         ELSE [value |-> token, tokens |-> Tail(tokens), end |-> "return"]

\* lone_parse(lone, value, remainder): the value parsed, the tokens left over.
lone_parse(bytes, remainder, slack) ==
    LET lexed == lone_lex(bytes, slack) IN
    IF lexed.end # "return" THEN [value |-> NoValue, tokens |-> remainder, end |-> lexed.end]
    ELSE lone_parse_tokens(IF remainder # << >> THEN remainder \o lexed.tokens
                           ELSE lexed.tokens)

(***************************************************************************)
(* The printer: the bytes lone_print writes.                               *)
(***************************************************************************)
(***************************************************************************)
(* lone_print_integer(fd, n).  n *= -1 overflows for the most negative     *)
(* word, which C leaves undefined.  Two outcomes are modelled: the product *)
(* wraps and n stays negative through the digit loop (wraps), or the loop  *)
(* works on the magnitude as an unsigned word (~wraps).  For every other n *)
(* the two agree.                                                          *)
(***************************************************************************)
RECURSIVE PrintDigits(_, _)
PrintDigits(n, digits) ==
    LET more == <<Zero + Remainder(n, 10)>> \o digits IN
    IF Quotient(n, 10) > 0 THEN PrintDigits(Quotient(n, 10), more) ELSE more

lone_print_integer(n, wraps) ==
    IF n < 0 THEN <<Minus>> \o PrintDigits(IF wraps THEN Wrap(n * (-1)) ELSE n * (-1), << >>)
    ELSE PrintDigits(n, << >>)

RECURSIVE lone_print(_)
RECURSIVE lone_print_list(_)

\* lone_print_list(lone, list, fd)
lone_print_list(items) ==
    IF items = << >> THEN << >>
    ELSE lone_print(Head(items))
           \o (IF Tail(items) # << >> THEN <<Space>> \o lone_print_list(Tail(items))
               ELSE << >>)

\* lone_print(lone, value, fd)
lone_print(value) ==
    IF value = NoValue \/ IsNil(value) THEN << >>
    ELSE IF value.type = "list"
    THEN <<LeftParenthesis>> \o lone_print_list(value.items) \o <<RightParenthesis>>
    ELSE IF value.type = "symbol" THEN value.bytes
    ELSE IF value.type = "text" THEN <<Quote>> \o value.bytes \o <<Quote>>
    ELSE lone_print_integer(value.integer, TRUE)

(***************************************************************************)
(* The driver's output.  The environment of the driver holds the symbols   *)
(* arguments, environment and auxiliary-values; the symbols of the model's *)
(* inputs are none of them, their lookup is a miss and returns a nil.      *)
(* linux_write may fail; nothing tests what it returns.  In the model the  *)
(* output either takes all the bytes of an iteration or, from some         *)
(* iteration on, refuses every write.                                      *)
(***************************************************************************)
\* lone_print(&lone, lone_evaluate(&lone, value), 1); linux_write(1, "\n", 1);
PrintLine(out, value, works) ==
    IF works
    THEN [out EXCEPT !.bytes = @ \o lone_print(lone_evaluate(value, Nil)) \o <<Newline>>]
    ELSE [out EXCEPT !.failed = TRUE]

(***************************************************************************)
(* The reader.  One step is one return of linux_read: it takes the loop of *)
(* lone_read_from_file_descriptor and of lone_read up to the next call of  *)
(* linux_read, or to the end of the process.  data is the buffer up to     *)
(* position.  The block of the buffer is ReaderSlack bytes larger than the *)
(* buffer (lone_allocate adds the size of a header to every request); a    *)
(* read that writes behind the block overwrites the allocator's headers.   *)
(***************************************************************************)
\* Longest input, in bytes.
MaxInput == 5
\* The buffer sizes lone_reader_initialize is given.
SmallBuffer == 2
LargeBuffer == 8
\* Bytes of a buffer's block behind the buffer.
ReaderSlack == 1

BufferSizes == {SmallBuffer, LargeBuffer}
\* What the byte behind a lexer's input may hold: zero, or a byte left there.
SlackBytes == {0, RightParenthesis}

\* lone_reader_initialize(lone, reader, buffer_size, file_descriptor)
lone_reader_initialize(buffer_size) == [NoReader EXCEPT !.count = buffer_size]

\* The size linux_read is asked for.
RequestedSize(rd) == IF rd.filling THEN rd.size ELSE rd.count

\* lone_read once lone_parse has returned parsed.
AfterParse(rd, bytes_read, parsed) ==
    LET rd1 == [rd EXCEPT !.remaining_tokens = parsed.tokens]
        rd2 == [rd EXCEPT !.remaining_tokens = parsed.tokens,
                          !.finished = @ \/ (bytes_read = 0 /\ IsNil(parsed.value)),
                          !.position = 0, !.data = << >>]
    IN  IF parsed.end # "return" THEN [reader |-> rd, value |-> NoValue, end |-> parsed.end]
        ELSE IF bytes_read = 0 /\ parsed.value = NoValue
        THEN [reader |-> rd1, value |-> NoValue, end |-> "incomplete"]
        ELSE IF parsed.value = NoValue
        THEN [reader |-> rd1, value |-> NoValue, end |-> "running"]
        ELSE [reader |-> rd2, value |-> parsed.value,
              end |-> IF rd2.finished THEN "finished" ELSE "running"]

\* lone_read after lone_read_from_file_descriptor returned bytes_read.
AfterFill(rd, bytes_read, slack) ==
    AfterParse(rd, bytes_read, lone_parse(rd.data, rd.remaining_tokens, slack))

\* One return of linux_read with the bytes of chunk.
ReadStep(rd, chunk, slack) ==
    LET size       == RequestedSize(rd)
        allocated  == IF rd.filling THEN rd.allocated ELSE rd.count
        total_read == (IF rd.filling THEN rd.total_read ELSE 0) + Len(chunk)
        position   == rd.position + Len(chunk)
        rd1        == [rd EXCEPT !.data = @ \o chunk, !.position = position]
    IN  IF position > allocated + ReaderSlack
        THEN [reader |-> rd1, value |-> NoValue, end |-> "overflow"]
        ELSE IF Len(chunk) = size
        THEN [reader |-> [rd1 EXCEPT !.filling = TRUE, !.size = size,
                                     !.allocated = allocated + size,
                                     !.total_read = total_read],
              value |-> NoValue, end |-> "running"]
        ELSE AfterFill([rd1 EXCEPT !.filling = FALSE, !.count = allocated],
                       total_read, slack)

\* What linux_read may return: some of the bytes left, none at the end.
Deliverable(rd, rest) ==
    IF rest = << >> THEN {0}
    ELSE 1..(IF Len(rest) < RequestedSize(rd) THEN Len(rest) ELSE RequestedSize(rd))

\* What a step r of the reader leaves behind: when lone_read returned a
\* value, the driver has evaluated and printed it.
Stepped(r, works, n) ==
    /\ reader' = [r.reader EXCEPT !.deliveries = @ + (IF n > 0 THEN 1 ELSE 0)]
    /\ returned' = IF r.value = NoValue THEN returned ELSE Append(returned, r.value)
    /\ output' = IF r.value = NoValue THEN output ELSE PrintLine(output, r.value, works)
    /\ status' = r.end

\* Whether the raw writes of an iteration may succeed.
Working(out) == IF out.failed THEN {FALSE} ELSE BOOLEAN

RawRead(n, slack, works) ==
    /\ status = "running"
    /\ n \in Deliverable(reader, stream)
    /\ Stepped(ReadStep(reader, SubSeq(stream, 1, n), slack), works, n)
    /\ stream' = SubSeq(stream, n + 1, Len(stream))
    /\ UNCHANGED <<original, trip, last, ops>>

\* linux_read reports a failure: lone_read_from_file_descriptor ends the process.
ReadFails ==
    /\ status = "running"
    /\ status' = "exit"
    /\ reader' = [reader EXCEPT !.read_failed = TRUE]
    /\ UNCHANGED <<original, stream, returned, output, trip, last, ops>>

\* The same loop when every linux_read returns all it was asked for.
RECURSIVE ReadWholeFrom(_, _, _, _, _)
ReadWholeFrom(rd, rest, results, slack, fuel) ==
    LET n == IF Len(rest) < RequestedSize(rd) THEN Len(rest) ELSE RequestedSize(rd)
        r == ReadStep(rd, SubSeq(rest, 1, n), slack)
        v == IF r.value = NoValue THEN results ELSE Append(results, r.value)
    IN  IF r.end # "running" \/ fuel = 0 THEN [returned |-> v, end |-> r.end]
        ELSE ReadWholeFrom(r.reader, SubSeq(rest, n + 1, Len(rest)), v, slack, fuel - 1)

ReadWhole(bytes, buffer_size, slack) ==
    ReadWholeFrom(lone_reader_initialize(buffer_size), bytes, << >>, slack,
                  2 * Len(bytes) + 2)

\* ------------------------------------------------------------ SpecReader
ReaderAlphabet == {97, Space, LeftParenthesis, RightParenthesis, Quote}

RECURSIVE Strings(_, _)
Strings(alphabet, n) ==
    IF n = 0 THEN {<< >>}
    ELSE LET shorter == Strings(alphabet, n - 1) IN
         shorter \cup {Append(x, b) : x \in shorter, b \in alphabet}

InitReader ==
    /\ tables = << >>
    /\ history = << >>
    /\ last = NoOp
    /\ status = "running"
    /\ ops = 0
    /\ memory = << >>
    /\ live = {}
    /\ requested = << >>
    /\ values = << >>
    /\ original \in Strings(ReaderAlphabet, MaxInput)
    /\ stream = original
    /\ \E buffer_size \in BufferSizes : reader = lone_reader_initialize(buffer_size)
    /\ returned = << >>
    /\ trip = NoTrip
    /\ output = NoOutput

NextReader ==
    \/ \E n \in 1..LargeBuffer, slack \in SlackBytes, works \in Working(output) :
          RawRead(n, slack, works) /\ UNCHANGED <<tableVars, memoryVars>>
    \/ \E slack \in SlackBytes, works \in Working(output) :
          RawRead(0, slack, works) /\ UNCHANGED <<tableVars, memoryVars>>
    \/ ReadFails /\ UNCHANGED <<tableVars, memoryVars>>

SpecReader == InitReader /\ [][NextReader]_vars

(***************************************************************************)
(* The reader over the arena.  The buffer of the reader is a block of the  *)
(* arena, linux_read stores the words it returns at buffer + position, and *)
(* every value the lexer and the parser make is allocated behind it.  A    *)
(* step is one return of linux_read, as in SpecReader.  reader holds the   *)
(* fields of struct lone_reader and trip the locals of the call of         *)
(* lone_read_from_file_descriptor that waits in linux_read.  values holds, *)
(* newest first, every value created, with the bytes it was created with.  *)
(***************************************************************************)
\* Words of the arena of SpecBuffer.
BufferArenaWords == 320
\* The buffer size lone_reader_initialize is given in SpecBuffer, in words.
FirstBuffer == 3
\* Returns of linux_read in one run of SpecBuffer.
MaxReads == 4

\* The count words at pointer.
Bytes(mem, pointer, count) == [k \in 1..count |-> Load(mem, pointer + k - 1)]

\* linux_read storing the words of chunk from address on.
RECURSIVE Put(_, _, _)
Put(mem, address, chunk) ==
    IF chunk = << >> THEN mem
    ELSE Put(Store(mem, address, Head(chunk)), address + 1, Tail(chunk))

linux_read(mem, address, chunk) ==
    IF address < Base \/ address + Len(chunk) > Top(mem) THEN Fault(mem)
    ELSE Done(Put(mem, address, chunk))

\* lone_bytes_create(lone, pointer, count), lone_symbol_create and
\* lone_text_create on count words at from: created is what
\* lone_value_create did and copy what lone_allocate(lone, count) did.
BytesCopied(created, copy, type, from, count) ==
    IF created.end # "return" THEN [mem |-> created.mem, end |-> created.end,
                                    node |-> NULL, pointer |-> NULL]
    ELSE IF copy.end # "return" THEN [mem |-> copy.mem, end |-> copy.end,
                                      node |-> created.node, pointer |-> NULL]
    ELSE IF from < Base \/ from + count > Top(copy.mem) \/ copy.pointer + count > Top(copy.mem)
    THEN [mem |-> copy.mem, end |-> "fault", node |-> created.node, pointer |-> NULL]
    ELSE [mem |-> Typed(lone_memory_move(copy.mem, from, copy.pointer, count),
                        created.node, type, copy.pointer),
          end |-> "return", node |-> created.node, pointer |-> copy.pointer]

lone_bytes_copy(mem, head, type, from, count) ==
    BytesCopied(lone_value_create(mem, head),
                lone_allocate(lone_value_create(mem, head).mem, count), type, from, count)

\* The calls of a handler so far: the arena, lone->values, the values made
\* (newest first) and how the last call ended.
Calls(mem, head) == [mem |-> mem, head |-> head, made |-> << >>, end |-> "return"]

\* The constructor call r of a value of count bytes on top of the calls s.
Then(s, r, type, count) ==
    [mem  |-> r.mem,
     head |-> IF r.node # NULL THEN r.node ELSE s.head,
     made |-> IF r.end = "return"
              THEN <<[node |-> r.node, type |-> type, pointer |-> r.pointer,
                      count |-> count,
                      bytes |-> IF r.pointer = NULL THEN << >>
                                ELSE Bytes(r.mem, r.pointer, count)]>> \o s.made
              ELSE s.made,
     end  |-> r.end]

\* lone_list_create_nil(lone)
Cell(s) ==
    IF s.end # "return" THEN s
    ELSE Then(s, lone_list_create(s.mem, s.head, LONE_LIST), LONE_LIST, 0)

RECURSIVE Cells(_, _)
Cells(s, n) == IF n = 0 THEN s ELSE Cells(Cell(s), n - 1)

\* The value a consumer of the lexer makes of a token whose bytes start at from.
TokenValue(s, token, from) ==
    IF s.end # "return" THEN s
    ELSE IF token.type = "integer"
    THEN Then(s, lone_list_create(s.mem, s.head, LONE_INTEGER), LONE_INTEGER, 0)
    ELSE Then(s, lone_bytes_copy(s.mem, s.head,
                                 IF token.type = "text" THEN LONE_TEXT ELSE LONE_SYMBOL,
                                 from, Len(token.bytes)),
              IF token.type = "text" THEN LONE_TEXT ELSE LONE_SYMBOL, Len(token.bytes))

\* Where the bytes of each token of lone_lex start in the input.
RECURSIVE Starts(_, _, _, _)
Starts(input, position, starts, slack) ==
    IF lone_lexer_peek(input, position) = NULL THEN starts
    ELSE IF lone_lexer_match_byte(input[lone_lexer_peek(input, position)], Space)
    THEN Starts(input, position + 1, starts, slack)
    ELSE LET t == LexToken(input, position, slack) IN
         IF t.fault \/ t.failed THEN starts
         ELSE Starts(input, t.position,
                     Append(starts, IF input[lone_lexer_peek(input, position)] = Quote
                                    THEN position + 1 ELSE position), slack)

\* The values of lone_lex: an empty list, then for every token its value
\* and the list that takes the next one.
RECURSIVE LexValues(_, _, _, _, _)
LexValues(s, tokens, starts, source, i) ==
    IF i > Len(tokens) THEN s
    ELSE LexValues(Cell(TokenValue(s, tokens[i], source + starts[i])),
                   tokens, starts, source, i + 1)

\* The lists lone_parse_tokens creates over tokens: one for every list
\* opened and one behind every element of a list; depth counts the lists
\* open.
RECURSIVE ParseCells(_, _, _)
ParseCells(tokens, depth, cells) ==
    IF tokens = << >> THEN cells + (IF depth > 1 THEN depth - 1 ELSE 0)
    ELSE IF IsParenthesis(Head(tokens), LeftParenthesis)
    THEN ParseCells(Tail(tokens), depth + 1, cells + 1)
    ELSE IF IsParenthesis(Head(tokens), RightParenthesis)
    THEN IF depth = 0 THEN cells
         ELSE IF depth = 1 THEN cells
         ELSE ParseCells(Tail(tokens), depth - 1, cells + 1)
    ELSE IF depth = 0 THEN cells
    ELSE ParseCells(Tail(tokens), depth, cells + 1)

\* The tokens lone_parse hands to lone_parse_tokens.
Carried(remainder, tokens) == IF remainder # << >> THEN remainder \o tokens ELSE tokens

\* lone_read from the return of lone_read_from_file_descriptor on: rd is the
\* reader it left, s the calls of lone_bytes_create and lone_lex, lexed what
\* lone_lex returned and parsed what lone_parse_tokens returned.
ReadParsed(rd, bytes_read, s, lexed, parsed) ==
    LET end == IF s.end # "return" THEN s.end
               ELSE IF lexed.end # "return" THEN lexed.end
               ELSE IF parsed.end # "return" THEN parsed.end
               ELSE IF parsed.value = NoValue /\ bytes_read = 0 THEN "incomplete"
               ELSE IF parsed.value # NoValue /\ bytes_read = 0 /\ IsNil(parsed.value)
               THEN "finished"
               ELSE "running"
        rd1 == IF end \in {"running", "finished", "incomplete"}
               THEN [rd EXCEPT !.remaining_tokens = parsed.tokens,
                               !.finished = (end = "finished"),
                               !.position = IF parsed.value = NoValue THEN @ ELSE 0]
               ELSE rd
    IN  /\ memory' = s.mem
        /\ values' = s.made \o values
        /\ status' = end
        /\ reader' = rd1
        /\ trip' = [buffer |-> rd1.pointer, size |-> rd1.count, position |-> rd1.position,
                    allocated |-> rd1.count, total_read |-> 0]
        /\ returned' = IF end \in {"running", "finished"} /\ parsed.value # NoValue
                       THEN Append(returned, parsed.value) ELSE returned

\* lone_parse once lone_lex has returned lexed and its values are made.
ReadLexed(rd, bytes_read, s, lexed) ==
    ReadParsed(rd, bytes_read,
               IF lexed.end = "return"
               THEN Cells(s, ParseCells(Carried(rd.remaining_tokens, lexed.tokens), 0, 0))
               ELSE s,
               lexed,
               IF lexed.end = "return"
               THEN lone_parse_tokens(Carried(rd.remaining_tokens, lexed.tokens))
               ELSE [value |-> NoValue, tokens |-> rd.remaining_tokens, end |-> lexed.end])

\* lone_read once lone_bytes_create has copied the buffer: c is what it did.
ReadCopied(rd, bytes_read, c, s) ==
    IF c.end # "return"
    THEN ReadParsed(rd, bytes_read, s, [tokens |-> << >>, end |-> c.end],
                    [value |-> NoValue, tokens |-> rd.remaining_tokens, end |-> c.end])
    ELSE ReadLexed(rd, bytes_read,
                   LexValues(Cell(s),
                             lone_lex(Bytes(c.mem, c.pointer, rd.position),
                                      Load(c.mem, c.pointer + rd.position)).tokens,
                             Starts(Bytes(c.mem, c.pointer, rd.position), 0, << >>,
                                    Load(c.mem, c.pointer + rd.position)),
                             c.pointer, 1),
                   lone_lex(Bytes(c.mem, c.pointer, rd.position),
                            Load(c.mem, c.pointer + rd.position)))

\* lone_read_from_file_descriptor has left its loop with the reader rd.
ReadFilled(rd, bytes_read, c) ==
    ReadCopied(rd, bytes_read, c,
               Then(Calls(memory, StoreHead(values)), c, LONE_BYTES, rd.position))

\* The buffer was filled: it is reallocated and linux_read called again; r
\* is what lone_reallocate did.
ReadGrown(chunk, r) ==
    /\ memory' = r.mem
    /\ status' = After(r.end)
    /\ trip' = [trip EXCEPT !.buffer = r.pointer,
                            !.position = @ + Len(chunk),
                            !.allocated = @ + trip.size,
                            !.total_read = @ + Len(chunk)]
    /\ UNCHANGED <<reader, values, returned>>

\* One return of linux_read with the words of chunk; w is the store.
ReadStored(chunk, w) ==
    IF w.fault
    THEN /\ memory' = w.mem
         /\ status' = "fault"
         /\ UNCHANGED <<reader, trip, values, returned>>
    ELSE IF Len(chunk) = trip.size
    THEN ReadGrown(chunk, lone_reallocate(w.mem, trip.buffer, trip.allocated + trip.size))
    ELSE ReadFilled([reader EXCEPT !.pointer = trip.buffer, !.count = trip.allocated,
                                   !.position = trip.position + Len(chunk)],
                    trip.total_read + Len(chunk),
                    lone_bytes_copy(w.mem, StoreHead(values), LONE_BYTES, trip.buffer,
                                    trip.position + Len(chunk)))

BufferRead(chunk) ==
    /\ status = "running"
    /\ Len(chunk) <= trip.size
    /\ ReadStored(chunk, linux_read(memory, trip.buffer + trip.position, chunk))
    /\ last' = [op |-> "read", pointer |-> trip.buffer + trip.position,
                size |-> Len(chunk), result |-> NULL]
    /\ UNCHANGED <<live, requested, stream, original, output>>

\* ------------------------------------------------------------ SpecBuffer
\* n times the word w.
Run(n, w) == [k \in 1..n |-> w]

\* What linux_read may return when asked for size words: nothing, or one
\* word, all the words or all but one, which are letters, letters behind an
\* opening parenthesis or letters before a closing one.
Lengths(size) == {1, size - 1, size} \ {0}

Chunks(size) ==
    {<< >>}
      \cup {Run(n, 97) : n \in Lengths(size)}
      \cup {<<LeftParenthesis>> \o Run(n - 1, 97) : n \in Lengths(size)}
      \cup {Run(n - 1, 97) \o <<RightParenthesis>> : n \in Lengths(size)}

\* lone_lisp_initialize and lone_reader_initialize(lone, reader, FirstBuffer, 0)
InitBuffer ==
    /\ tables = << >>
    /\ history = << >>
    /\ last = MemoryNoOp
    /\ status = "running"
    /\ ops = 0
    /\ memory = lone_allocate(lone_lisp_initialize(BufferArenaWords), FirstBuffer).mem
    /\ live = {}
    /\ requested = << >>
    /\ values = << >>
    /\ original = << >>
    /\ stream = << >>
    /\ reader = [pointer |-> Base + HeaderWords, count |-> FirstBuffer, position |-> 0,
                 remaining_tokens |-> << >>, finished |-> FALSE]
    /\ returned = << >>
    /\ trip = [buffer |-> Base + HeaderWords, size |-> FirstBuffer, position |-> 0,
               allocated |-> FirstBuffer, total_read |-> 0]
    /\ output = NoOutput

NextBuffer ==
    \E chunk \in Chunks(trip.size) :
        /\ BufferRead(chunk)
        /\ ops < MaxReads /\ ops' = ops + 1
        /\ UNCHANGED tableVars

SpecBuffer == InitBuffer /\ [][NextBuffer]_vars

(***************************************************************************)
(* The single-pass lexer of part_000: lone_lex walks the input once with   *)
(* the index i and makes a Bytes value of every token.  A token does not   *)
(* copy the input: it is the offset from of its first byte and its count.  *)
(* slack is the byte behind the input, which the digit loop of a signed    *)
(* number reads when the number ends the input.                            *)
(***************************************************************************)
\* Longest input of SpecLexer, in bytes.
MaxLexInput == 4

\* input[i] of the C code.
At(input, i, slack) == Byte(input, i + 1, slack)

\* lone_lexer_find_byte(byte, bytes, size), bytes being input + from: the
\* index behind the first match, -1 when there is none.
RECURSIVE FindByteFrom(_, _, _, _, _, _)
FindByteFrom(byte, input, from, size, i, slack) ==
    IF i >= size THEN -1
    ELSE IF lone_lexer_match_byte(At(input, from + i, slack), byte) THEN i + 1
    ELSE FindByteFrom(byte, input, from, size, i + 1, slack)

lone_lexer_find_byte(byte, input, from, size, slack) ==
    FindByteFrom(byte, input, from, size, 0, slack)

\* while ((end + 1) < remaining && lone_lexer_match_byte(position[++end], '1'));
RECURSIVE ScanDigits(_, _, _, _, _)
ScanDigits(input, position, remaining, end, slack) ==
    IF end + 1 < remaining
    THEN IF lone_lexer_match_byte(At(input, position + end + 1, slack), Zero + 1)
         THEN ScanDigits(input, position, remaining, end + 1, slack)
         ELSE end + 1
    ELSE end

\* while ((end + 1) < remaining && !lone_lexer_match_byte(position[++end], ' '));
RECURSIVE ScanSymbol(_, _, _, _, _)
ScanSymbol(input, position, remaining, end, slack) ==
    IF end + 1 < remaining
    THEN IF ~lone_lexer_match_byte(At(input, position + end + 1, slack), Space)
         THEN ScanSymbol(input, position, remaining, end + 1, slack)
         ELSE end + 1
    ELSE end

\* The Bytes value lone_bytes_create(lone, position, count) of part_000
\* makes, with the case of the switch that made it.
TokenAt(kind, input, from, count, end, slack) ==
    [failed |-> FALSE, end |-> end,
     token |-> [kind |-> kind, from |-> from, count |-> count,
                bytes |-> [k \in 1..count |-> At(input, from + k - 1, slack)]]]

LexFailed == [failed |-> TRUE, end |-> 0, token |-> NoValue]

\* The body of the loop of lone_lex for a byte at start that is no
\* whitespace.  A text without closing quote: lone_lexer_find_byte returns
\* -1, which end, a size_t, holds as the largest word; end < 0 is false,
\* the token has end + 1 = 0 bytes and i += end; ++i leaves i at start, so
\* the loop makes empty tokens until lone_allocate ends the process.
TokenFrom(input, start, slack) ==
    LET size == Len(input)
        remaining == size - start
        is_signed_number ==
            /\ At(input, start, slack) \in {Plus, Minus}
            /\ start < size - 1
            /\ lone_lexer_match_byte(At(input, start + 1, slack), Zero + 1)
        position == IF is_signed_number THEN start + 1 ELSE start
        c == At(input, position, slack)
    IN  IF c >= Zero /\ c <= Nine
        THEN LET end == ScanDigits(input, position, remaining, 0, slack) IN
             IF ~lone_lexer_match_byte(At(input, position + end, slack), Space) THEN LexFailed
             ELSE IF is_signed_number
             THEN TokenAt("number", input, position - 1, end + 1, end + 1, slack)
             ELSE TokenAt("number", input, position, end, end, slack)
        ELSE IF c = Quote
        THEN LET end == lone_lexer_find_byte(Quote, input, position + 1, remaining - 1, slack)
             IN  IF end < 0 THEN LexFailed
                 ELSE TokenAt("text", input, position, end + 1, end, slack)
        ELSE IF c \in {LeftParenthesis, RightParenthesis}
        THEN TokenAt("parenthesis", input, position, 1, 0, slack)
        ELSE LET end == ScanSymbol(input, position, remaining, 0, slack) IN
             TokenAt("symbol", input, position, end, end, slack)

\* lone_lex(lone, value) of part_000: the tokens, or the end of the process.
RECURSIVE LexSinglePass(_, _, _, _)
LexSinglePass(input, i, tokens, slack) ==
    IF i >= Len(input) THEN [tokens |-> tokens, end |-> "return"]
    ELSE IF lone_lexer_match_byte(At(input, i, slack), Space)
    THEN LexSinglePass(input, i + 1, tokens, slack)
    ELSE LET t == TokenFrom(input, i, slack) IN
         IF t.failed THEN [tokens |-> tokens, end |-> "exit"]
         ELSE LexSinglePass(input, i + t.end + 1, Append(tokens, t.token), slack)

lone_lex_single_pass(input, slack) == LexSinglePass(input, 0, << >>, slack)

\* ------------------------------------------------------------- SpecLexer
LexAlphabet == {97, Space, LeftParenthesis, Zero + 1, Minus, Quote}

InitLexer ==
    /\ tables = << >>
    /\ history = << >>
    /\ last = NoOp
    /\ status = "running"
    /\ ops = 0
    /\ memory = << >>
    /\ live = {}
    /\ requested = << >>
    /\ values = << >>
    /\ original \in Strings(LexAlphabet, MaxLexInput)
    /\ stream = original
    /\ reader = NoReader
    /\ returned = << >>
    /\ \E slack \in SlackBytes :
          trip = [stage |-> "input", slack |-> slack, tokens |-> << >>, end |-> "none"]
    /\ output = NoOutput

\* lone_lex(lone, value) on the whole input.
LexInput ==
    /\ status = "running"
    /\ trip.stage = "input"
    /\ trip' = [trip EXCEPT !.stage = "lexed",
                            !.tokens = lone_lex_single_pass(original, trip.slack).tokens,
                            !.end = lone_lex_single_pass(original, trip.slack).end]
    /\ status' = lone_lex_single_pass(original, trip.slack).end
    /\ stream' = << >>
    /\ UNCHANGED <<original, reader, returned, output, last, ops>>

NextLexer == LexInput /\ UNCHANGED <<tableVars, memoryVars>>

SpecLexer == InitLexer /\ [][NextLexer]_vars

(***************************************************************************)
(* SpecPrint: an input is parsed, the value is printed, and the printed    *)
(* bytes are parsed again, each time with lone_parse on the whole bytes    *)
(* and no tokens left over from before.                                    *)
(***************************************************************************)
PrintAlphabet == {97, Zero + 1, Minus, Space, LeftParenthesis, RightParenthesis, Quote}

InitPrint ==
    /\ tables = << >>
    /\ history = << >>
    /\ last = NoOp
    /\ status = "running"
    /\ ops = 0
    /\ memory = << >>
    /\ live = {}
    /\ requested = << >>
    /\ values = << >>
    /\ original \in Strings(PrintAlphabet, MaxInput)
    /\ stream = << >>
    /\ reader = NoReader
    /\ returned = << >>
    /\ trip = [stage |-> "input"]
    /\ output = NoOutput

\* lone_parse of the input
ParseInput(slack) ==
    /\ trip.stage = "input"
    /\ LET r == lone_parse(original, << >>, slack) IN
       /\ trip' = [stage |-> "parsed", tree |-> r.value, rest |-> r.tokens, slack |-> slack]
       /\ status' = IF r.end = "return" THEN "running" ELSE r.end
    /\ UNCHANGED <<original, stream, reader, returned, output, last, ops>>

\* lone_print of the value parsed
PrintTree ==
    /\ trip.stage = "parsed"
    /\ status = "running"
    /\ trip.tree # NoValue
    /\ trip' = [stage |-> "printed", tree |-> trip.tree, rest |-> trip.rest,
                slack |-> trip.slack, printed |-> lone_print(trip.tree)]
    /\ UNCHANGED <<original, stream, reader, returned, output, last, ops, status>>

\* lone_parse of the bytes printed
ParsePrinted(slack) ==
    /\ trip.stage = "printed"
    /\ LET r == lone_parse(trip.printed, << >>, slack) IN
       /\ trip' = [stage |-> "parsed again", tree |-> trip.tree, rest |-> trip.rest,
                   slack |-> trip.slack, printed |-> trip.printed, again |-> r.value]
       /\ status' = IF r.end = "return" THEN "running" ELSE r.end
    /\ UNCHANGED <<original, stream, reader, returned, output, last, ops>>

NextPrint ==
    \/ \E slack \in SlackBytes : ParseInput(slack) /\ UNCHANGED <<tableVars, memoryVars>>
    \/ PrintTree /\ UNCHANGED <<tableVars, memoryVars>>
    \/ \E slack \in SlackBytes : ParsePrinted(slack) /\ UNCHANGED <<tableVars, memoryVars>>

SpecPrint == InitPrint /\ [][NextPrint]_vars

(***************************************************************************)
(* Integers on their own: a word is printed and the bytes written are      *)
(* parsed, or an optional sign and digits are parsed as typed.             *)
(***************************************************************************)
\* Longest run of digits typed.
MaxDigits == 5
\* How far from zero and from the ends of the range the words printed lie.
NearBy == 130
TypedDigits == {Zero, Zero + 2, Zero + 3, Zero + 6, Zero + 7, Zero + 8}
Signs == {<< >>, <<Plus>>, <<Minus>>}
TypedTexts ==
    {sign \o digits : sign \in Signs, digits \in Strings(TypedDigits, MaxDigits) \ {<< >>}}
Words ==
    (MinWord..(MinWord + NearBy)) \cup ((-NearBy)..NearBy) \cup ((MaxWord - NearBy)..MaxWord)

InitInteger ==
    /\ tables = << >>
    /\ history = << >>
    /\ last = NoOp
    /\ status = "running"
    /\ ops = 0
    /\ memory = << >>
    /\ live = {}
    /\ requested = << >>
    /\ values = << >>
    /\ original = << >>
    /\ stream = << >>
    /\ reader = NoReader
    /\ returned = << >>
    /\ output = NoOutput
    /\ \/ \E n \in Words :
             trip = [stage |-> "integer", n |-> n, text |-> << >>, parsed |-> 0]
       \/ \E text \in TypedTexts :
             trip = [stage |-> "typed", n |-> 0, text |-> text, parsed |-> 0]

PrintInteger(wraps) ==
    /\ trip.stage = "integer"
    /\ trip' = [trip EXCEPT !.stage = "integer printed",
                            !.text = lone_print_integer(trip.n, wraps)]
    /\ UNCHANGED <<original, stream, reader, returned, output, last, ops, status>>

ParseInteger ==
    /\ trip.stage \in {"typed", "integer printed"}
    /\ trip' = [trip EXCEPT !.stage = IF trip.stage = "typed" THEN "typed parsed"
                                      ELSE "integer parsed",
                            !.parsed = lone_integer_parse(trip.text).integer]
    /\ UNCHANGED <<original, stream, reader, returned, output, last, ops, status>>

NextInteger ==
    \/ \E wraps \in BOOLEAN : PrintInteger(wraps) /\ UNCHANGED <<tableVars, memoryVars>>
    \/ ParseInteger /\ UNCHANGED <<tableVars, memoryVars>>

SpecInteger == InitInteger /\ [][NextInteger]_vars

(***************************************************************************)
(* lone_lex step by step.  A step is one iteration of the loop of lone_lex *)
(* or its return; trip holds the lexer: its position, the tokens made and  *)
(* how the call stands.                                                    *)
(***************************************************************************)
InitLexing ==
    /\ tables = << >>
    /\ history = << >>
    /\ last = NoOp
    /\ status = "running"
    /\ ops = 0
    /\ memory = << >>
    /\ live = {}
    /\ requested = << >>
    /\ values = << >>
    /\ original \in Strings(PrintAlphabet, MaxLexInput)
    /\ stream = << >>
    /\ reader = NoReader
    /\ returned = << >>
    /\ trip = [stage |-> "lexing", position |-> 0, tokens |-> << >>]
    /\ output = NoOutput

\* The iteration met whitespace: lone_lexer_consume(lexer); continue;
LexSkip ==
    /\ trip.stage = "lexing"
    /\ lone_lexer_peek(original, trip.position) # NULL
    /\ lone_lexer_match_byte(original[lone_lexer_peek(original, trip.position)], Space)
    /\ trip' = [trip EXCEPT !.position = @ + 1]
    /\ UNCHANGED <<original, stream, reader, returned, output, last, ops, status>>

\* The iteration called a consumer, which reported t.
LexIterated(t) ==
    /\ trip' = [stage |-> IF t.fault THEN "fault" ELSE IF t.failed THEN "failed"
                          ELSE "lexing",
                position |-> t.position,
                tokens |-> IF t.failed THEN trip.tokens ELSE Append(trip.tokens, t.token)]
    /\ status' = IF t.fault THEN "fault" ELSE IF t.failed THEN "exit" ELSE status

LexIteration(slack) ==
    /\ trip.stage = "lexing"
    /\ lone_lexer_peek(original, trip.position) # NULL
    /\ ~lone_lexer_match_byte(original[lone_lexer_peek(original, trip.position)], Space)
    /\ LexIterated(LexToken(original, trip.position, slack))
    /\ UNCHANGED <<original, stream, reader, returned, output, last, ops>>

\* lone_lexer_peek returned the null pointer: return first;
LexReturn ==
    /\ trip.stage = "lexing"
    /\ lone_lexer_peek(original, trip.position) = NULL
    /\ trip' = [trip EXCEPT !.stage = "returned"]
    /\ UNCHANGED <<original, stream, reader, returned, output, last, ops, status>>

NextLexing ==
    \/ LexSkip /\ UNCHANGED <<tableVars, memoryVars>>
    \/ \E slack \in SlackBytes : LexIteration(slack) /\ UNCHANGED <<tableVars, memoryVars>>
    \/ LexReturn /\ UNCHANGED <<tableVars, memoryVars>>

SpecLexing == InitLexing /\ [][NextLexing]_vars

\* The process runs: a step that can be taken is taken.
SpecLexingFair == SpecLexing /\ WF_vars(NextLexing)

(***************************************************************************)
(* What the claims speak of.                                               *)
(***************************************************************************)
\* The slots of a table: indexes 0..capacity-1 of its entries array.
Slots(table) == 0..(table.capacity - 1)

\* The table holds the key: its callers have set it and not deleted it since.
Holds(t, key) == history[t].set[Content(key)] # NULL

\* What a lookup of key from table pointer p is to return: the value of the
\* nearest table of the chain that holds the key, nil when none does.
RECURSIVE ChainValue(_, _, _)
ChainValue(p, key, depth) ==
    IF p = NULL \/ lone_is_nil(p) \/ depth = 0 THEN NilValue
    ELSE IF Holds(p, key) THEN history[p].set[Content(key)]
    ELSE ChainValue(tables[p].prototype, key, depth - 1)

Depth == Cardinality(DOMAIN tables)

\* C1: after a sequence of lone_table_set calls on a table, lone_table_get
\* of a key returns the value most recently set under the key's content.
C1_GetReturnsLastSet ==
    \A t \in DOMAIN tables, k \in KeyIds :
        (status = "running" /\ history[t].pure /\ Holds(t, k)) =>
            lone_table_get(t, k, Depth) = history[t].set[Content(k)]

\* The values of a sequence that are not nil.
NonNil(results) == SelectSeq(results, LAMBDA v : ~IsNil(v))

\* The process has ended without leaving defined behaviour.
Ended == status \in {"finished", "exit", "incomplete"}

\* C2: the values the successive lone_read calls return are the same
\* whether the raw reads deliver the input whole or in pieces: when the run
\* has ended, its values (the nils of blank input aside) are those of a run
\* whose every raw read returned all it was asked for.
C2_ChunkingIsInvisible ==
    Ended =>
        \E buffer_size \in BufferSizes, slack \in SlackBytes :
            NonNil(returned) = NonNil(ReadWhole(original, buffer_size, slack).returned)

\* C10: an input of integers, symbols, quoted text and parenthesized lists
\* is parsed, the value is printed with lone_print, and parsing the printed
\* bytes yields a value equal to the first.
C10_PrintParseRoundTrip ==
    trip.stage = "parsed again" => (status = "running" /\ trip.again = trip.tree)

\* The payload of the block behind an allocated pointer: the addresses from
\* the pointer up to the block's size.
PayloadSize(pointer) == Load(memory, pointer - HeaderWords + SizeField)
Payload(pointer) == pointer..(pointer + PayloadSize(pointer) - 1)

\* The block list: the headers met by following next from the first block.
RECURSIVE BlocksFrom(_, _, _)
BlocksFrom(mem, block, fuel) ==
    IF block = NULL \/ fuel = 0 \/ ~Mapped(mem, block) THEN << >>
    ELSE <<block>> \o BlocksFrom(mem, Load(mem, block + NextField), fuel - 1)

Blocks == BlocksFrom(memory, Base, ArenaWords)
IsFree(block) == Load(memory, block + FreeField) # 0

\* C3: the payloads of the allocated blocks are pairwise disjoint and lie
\* inside the arena, after any calls of lone_allocate, lone_deallocate and
\* lone_reallocate that did not exhaust the arena.
C3_PayloadsDisjoint ==
    status = "running" =>
        \A p \in live :
            /\ Payload(p) \subseteq (Base + HeaderWords)..(Base + ArenaWords - 1)
            /\ \A q \in live \ {p} : Payload(p) \cap Payload(q) = {}

\* C4: after a lone_deallocate call no two blocks that follow each other in
\* the block list are both free.
C4_NoAdjacentFreeBlocks ==
    (status = "running" /\ last.op \in {"deallocate", "reallocate"}) =>
        \A i \in 1..(Len(Blocks) - 1) : ~(IsFree(Blocks[i]) /\ IsFree(Blocks[i + 1]))

\* C5: immediately after every lone_table_set call the live count is at
\* most half of the capacity.
C5_LoadFactorAfterSet ==
    (last.op = "set" /\ status = "running") =>
        /\ tables[last.table].count >= 0
        /\ 2 * tables[last.table].count <= tables[last.table].capacity

\* C6: every occupied slot is reachable from its key's hash position by
\* linear probing through occupied slots only, wrapping at capacity.
C6_ProbeReachable ==
    \A t \in DOMAIN tables :
        LET table == tables[t] IN
        \A i \in Slots(table) :
            table.entries[i].key # NULL =>
                LET home == lone_table_compute_hash_for(table.entries[i].key, table.capacity)
                IN  \A d \in 0..((i - home) % table.capacity) :
                        table.entries[(home + d) % table.capacity].key # NULL

\* A deletion has just moved entries back, and a slot below its key's hash
\* position is occupied: its probe run wraps around the end of the array.
C6_WrappedRunAfterDelete ==
    /\ last.op = "delete" /\ last.found /\ status = "running"
    /\ \E i \in Slots(tables[last.table]) :
          LET e == tables[last.table].entries[i] IN
          /\ e.key # NULL
          /\ lone_table_compute_hash_for(e.key, tables[last.table].capacity) > i

\* C7: after lone_table_delete removed a key that was present,
\* lone_table_get of that key on the same table returns what the prototype
\* chain holds for the key, or nil.
C7_DeletedKeyFallsThrough ==
    (last.op = "delete" /\ last.found /\ status = "running") =>
        lone_table_get(last.table, last.key, Depth)
            = ChainValue(tables[last.table].prototype, last.key, Depth)

\* C8: lone_table_get returns the value of the nearest table of the
\* prototype chain that holds the key (a local entry shadows the
\* prototype's), nil when no table of the chain holds it.
C8_GetFollowsChain ==
    (last.op = "get" /\ status = "running") =>
        last.result = ChainValue(last.table, last.key, Depth)

\* C9: lone_table_delete of a key the table does not hold leaves every
\* table unchanged.
C9_DeleteMissIsNoOp ==
    [][(last'.op = "delete" /\ ~Holds(last'.table, last'.key))
          => tables' = tables]_vars

\* The top-level forms of a token list, parsed one after the other; clean
\* when the tokens end with the last form, open when they end inside a list.
RECURSIVE FormsFrom(_, _)
FormsFrom(tokens, forms) ==
    IF tokens = << >> THEN [forms |-> forms, clean |-> TRUE, open |-> FALSE]
    ELSE LET r == lone_parse_tokens(tokens) IN
         IF r.end # "return" THEN [forms |-> forms, clean |-> FALSE, open |-> FALSE]
         ELSE IF r.value = NoValue THEN [forms |-> forms, clean |-> FALSE, open |-> TRUE]
         ELSE FormsFrom(r.tokens, Append(forms, r.value))

\* The top-level forms of the bytes of an input read as a whole.
FormsOf(bytes, slack) ==
    LET lexed == lone_lex(bytes, slack) IN
    IF lexed.end # "return" THEN [forms |-> << >>, clean |-> FALSE, open |-> FALSE]
    ELSE FormsFrom(lexed.tokens, << >>)

\* The printed results of forms, each followed by one newline.
RECURSIVE Lines(_)
Lines(forms) ==
    IF forms = << >> THEN << >>
    ELSE lone_print(lone_evaluate(Head(forms), Nil)) \o <<Newline>> \o Lines(Tail(forms))

\* C11: for an input of n top-level forms that ends cleanly the driver
\* writes the n printed results in order, each followed by one newline, and
\* nothing else.
C11_OneLinePerForm ==
    (status = "finished" /\ ~output.failed) =>
        \E slack \in SlackBytes :
            LET whole == FormsOf(original, slack) IN
            whole.clean /\ output.bytes = Lines(whole.forms)

\* C12: a raw read or a raw write that reported a failure has ended the
\* process with a nonzero status, and nothing was written after it.
C12_FailuresAreFatal ==
    (reader.read_failed \/ output.failed) => status = "exit"

\* The input read as a whole ends inside an open list.
OpenAtEnd(bytes) == \A slack \in SlackBytes : FormsOf(bytes, slack).open

\* C13: when the input ends inside an open list the stream is never marked
\* cleanly finished.
C13_OpenListNeverFinishes ==
    OpenAtEnd(original) => status # "finished"

\* C15: when a parse attempt ends with need-more-input, the tokens carried
\* over from earlier lone_read calls are still there for the next attempt.
C15_CarriedTokensKept ==
    [][(status' = "running" /\ returned' = returned /\ ~reader'.filling)
          => reader'.remaining_tokens = reader.remaining_tokens]_vars

\* C16: when one raw read supplied several top-level forms, the lone_read
\* calls have returned them one by one, in input order, none skipped and
\* none duplicated, when the stream is finished (the last call may have
\* returned the nil of the end of the stream after them).
C16_OneFormPerCall ==
    (status = "finished" /\ reader.deliveries = 1) =>
        \A slack \in SlackBytes :
            LET whole == FormsOf(original, slack) IN
            (whole.clean /\ Len(whole.forms) >= 2) =>
                returned \in {whole.forms, Append(whole.forms, Nil)}

\* The bytes begin a text that is not closed: a quote, and no quote after it.
StartsOpenText(bytes) ==
    /\ Len(bytes) >= 1 /\ bytes[1] = Quote
    /\ \A i \in 2..Len(bytes) : bytes[i] # Quote

IsDigit(byte) == byte >= Zero /\ byte <= Nine
IsDelimiter(byte) == byte = RightParenthesis \/ lone_lexer_match_byte(byte, Space)

\* The bytes begin with digits and a byte that may not follow a number.
StartsBadNumber(bytes) ==
    \E n \in 1..(Len(bytes) - 1) :
        /\ \A i \in 1..n : IsDigit(bytes[i])
        /\ ~IsDigit(bytes[n + 1]) /\ ~IsDelimiter(bytes[n + 1])

\* C17: lone_lex of a buffer with a text that is not closed, or with a
\* number followed by a byte that is neither whitespace nor ')', ends the
\* process as a lex error and returns no tokens.
C17_BadTokensAreLexErrors ==
    (trip.stage = "parsed" /\ (StartsOpenText(original) \/ StartsBadNumber(original))) =>
        (status = "exit" /\ trip.tree = NoValue)

\* The bytes are one text: a quote, bytes without a quote, a quote.
IsOneText(bytes) ==
    /\ Len(bytes) >= 2 /\ bytes[1] = Quote /\ bytes[Len(bytes)] = Quote
    /\ \A i \in 2..(Len(bytes) - 1) : bytes[i] # Quote

\* The bytes are one number, one symbol.
IsOneNumber(bytes) == Len(bytes) >= 1 /\ \A i \in 1..Len(bytes) : IsDigit(bytes[i])
IsOneSymbol(bytes) == Len(bytes) >= 1 /\ \A i \in 1..Len(bytes) : bytes[i] = 97

\* C18: a number, a text or a symbol that ends with the input buffer is
\* accepted and yields one token with its content.
C18_TokenAtEndOfBuffer ==
    trip.stage = "parsed" =>
        /\ IsOneText(original) =>
              (status = "running"
                 /\ trip.tree = Text(SubSeq(original, 2, Len(original) - 1)))
        /\ IsOneNumber(original) =>
              (status = "running" /\ trip.tree = lone_integer_parse(original))
        /\ IsOneSymbol(original) =>
              (status = "running" /\ trip.tree = Symbol(original))

\* The lists open after the first k tokens.
RECURSIVE Nesting(_, _)
Nesting(tokens, k) ==
    IF k = 0 THEN 0
    ELSE Nesting(tokens, k - 1)
           + (IF IsParenthesis(tokens[k], LeftParenthesis) THEN 1
              ELSE IF IsParenthesis(tokens[k], RightParenthesis) THEN -1
              ELSE 0)

\* C19: lone_parse_tokens ends the process exactly when it meets a ')' while
\* no list is open; every ')' it consumes otherwise closes the innermost
\* open list.
C19_StrayParenthesisIsFatal ==
    trip.stage = "parsed" =>
        LET lexed    == lone_lex(original, trip.slack)
            tokens   == lexed.tokens
            consumed == Len(tokens) - Len(trip.rest)
        IN  lexed.end = "return" =>
              /\ (status = "exit")
                    <=> (tokens # << >> /\ IsParenthesis(tokens[1], RightParenthesis))
              /\ (status = "running" /\ trip.tree # NoValue) =>
                    /\ Nesting(tokens, consumed) = 0
                    /\ \A k \in 1..(consumed - 1) : Nesting(tokens, k) >= 1

\* The parser has met a ')' first, with more tokens behind it, and ended
\* the process.
C19_StrayBeforeOthers ==
    /\ trip.stage = "parsed" /\ status = "exit"
    /\ LET lexed == lone_lex(original, trip.slack) IN
       /\ lexed.end = "return" /\ Len(lexed.tokens) >= 2
       /\ IsParenthesis(lexed.tokens[1], RightParenthesis)
       /\ IsParenthesis(lexed.tokens[2], LeftParenthesis)

\* C14: lone_evaluate of a symbol that neither the environment table nor
\* a table of its prototype chain holds returns a nil and does not end the
\* process.
C14_EvaluateMissIsNil ==
    (last.op = "evaluate" /\ lone_is_nil(ChainValue(last.table, last.key, Depth))) =>
        (status = "running" /\ lone_is_nil(last.result))

\* The block list of an arena: address, size and free flag of every block,
\* in list order.
BlockList(mem) ==
    LET blocks == BlocksFrom(mem, Base, ArenaWords) IN
    [i \in 1..Len(blocks) |->
        <<blocks[i], Load(mem, blocks[i] + SizeField), Load(mem, blocks[i] + FreeField)>>]

\* C20: lone_allocate(n) at once followed by lone_deallocate of the pointer
\* returned leaves the block list as it was before the pair: the same
\* blocks, sizes and free flags.
C20_CycleRestoresBlocks ==
    [][(last'.op = "cycle" /\ last'.result # NULL)
          => (status' = "running" /\ BlockList(memory') = BlockList(memory))]_vars

\* The free blocks of an arena that hold at least size words, in list order.
FreeBlocksOf(mem, size) ==
    SelectSeq(BlocksFrom(mem, Base, ArenaWords),
              LAMBDA block : Load(mem, block + FreeField) # 0
                             /\ Load(mem, block + SizeField) >= size)

\* C21: lone_allocate(size) returns the payload of the first block of the
\* list that is free and holds at least size, and ends the process only
\* when no free block holds at least size.
C21_FirstFitOrOutOfMemory ==
    [][last'.op = "allocate" =>
          LET fits == FreeBlocksOf(memory, last'.size) IN
          IF fits = << >> THEN status' = "exit"
          ELSE status' = "running" /\ last'.result = fits[1] + HeaderWords]_vars

\* The sum of header size + block size over the blocks of a list.
RECURSIVE Footprint(_, _)
Footprint(mem, blocks) ==
    IF blocks = << >> THEN 0
    ELSE HeaderWords + Load(mem, Head(blocks) + SizeField) + Footprint(mem, Tail(blocks))

\* The blocks tile the arena: the list starts at the arena's first word,
\* each block starts where the payload of the block before it ends, every
\* block holds at least one word and the last payload ends with the arena.
Tiles(mem) ==
    LET blocks == BlocksFrom(mem, Base, ArenaWords) IN
    /\ blocks # << >> /\ blocks[1] = Base
    /\ \A i \in 1..Len(blocks) : Load(mem, blocks[i] + SizeField) >= 1
    /\ \A i \in 1..(Len(blocks) - 1) :
          /\ blocks[i] < blocks[i + 1]
          /\ blocks[i + 1] = blocks[i] + HeaderWords + Load(mem, blocks[i] + SizeField)
    /\ Load(mem, blocks[Len(blocks)] + NextField) = NULL
    /\ Footprint(mem, blocks) = ArenaWords

\* What lone_memory_split did to the block that lone_allocate took: with an
\* excess of a header and a word or more the block keeps needed words and a
\* new free block holds the rest; with less the block list keeps its blocks
\* and sizes and the excess stays inside the block.
SplitRule(before, after, block, needed) ==
    LET excess == Load(before, block + SizeField) - needed
        old == BlockList(before)
        new == BlockList(after)
        i == CHOOSE i \in 1..Len(old) : old[i][1] = block
    IN  IF excess >= HeaderWords + 1
        THEN new = SubSeq(old, 1, i - 1)
                     \o << <<block, needed, 0>>,
                           <<block + HeaderWords + needed, excess - HeaderWords, 1>> >>
                     \o SubSeq(old, i + 1, Len(old))
        ELSE new = [old EXCEPT ![i] = <<block, needed + excess, 0>>]

\* C22: in every reachable state the blocks tile the arena, and a
\* lone_allocate that returns splits the block it took exactly when the
\* excess is at least a header and a word.
C22_BlocksTileArena ==
    /\ []Tiles(memory)
    /\ [][(last'.op = "allocate" /\ last'.result # NULL)
             => SplitRule(memory, memory', last'.result - HeaderWords,
                          last'.size + HeaderWords)]_vars

\* Whether the word at an address belongs to a free block of the list.
InFreeBlock(mem, address) ==
    \E block \in {BlocksFrom(mem, Base, ArenaWords)[i] :
                      i \in 1..Len(BlocksFrom(mem, Base, ArenaWords))} :
        /\ Load(mem, block + FreeField) # 0
        /\ address >= block
        /\ address < block + HeaderWords + Load(mem, block + SizeField)

\* The words a caller asked for behind a live pointer.
Asked(pointer) == pointer..(pointer + requested[pointer] - 1)

\* C23: lone_reallocate(p, n) on a live pointer p returns a live block of
\* at least n words whose first min(old requested size, n) words are the
\* old contents, leaves the old block free and writes to the memory of no
\* other live pointer.
C23_ReallocateKeepsContents ==
    [][(last'.op = "reallocate" /\ status' # "exit") =>
          LET old == last'.pointer
              new == last'.result
              kept == IF requested[old] < last'.size THEN requested[old] ELSE last'.size
          IN  /\ status' = "running"
              /\ new \in live'
              /\ Load(memory', new - HeaderWords + FreeField) = 0
              /\ Load(memory', new - HeaderWords + SizeField) >= last'.size
              /\ \A i \in 0..(kept - 1) : Load(memory', new + i) = Load(memory, old + i)
              /\ InFreeBlock(memory', old)
              /\ \A other \in live \ {old} :
                    \A address \in Asked(other) :
                        Load(memory', address) = Load(memory, address)]_vars

\* The number of times a pointer was handed to lone_deallocate.
TimesFreed(freed, pointer) == Cardinality({i \in 1..Len(freed) : freed[i] = pointer})

\* The memory the values of a store hold: their nodes and what they own.
HeldBy(store) ==
    {store[i].node : i \in 1..Len(store)}
        \cup {store[i].pointer : i \in {j \in 1..Len(store) : store[j].pointer # NULL}}

\* C24: after lone_deallocate_all the value store is empty and every block
\* that held a value's node, the byte buffer of a Symbol, Text or Bytes or
\* the entries array of a Table is free and was freed exactly once.
C24_DeallocateAllFreesEverything ==
    [][last'.op = "deallocate_all" =>
          /\ status' = "running"
          /\ values' = << >>
          /\ \A pointer \in HeldBy(values) :
                /\ InFreeBlock(memory', pointer)
                /\ TimesFreed(last'.freed, pointer) = 1]_vars

\* The decimal digits of a natural number, without leading zeros.
RECURSIVE Digits(_)
Digits(n) == IF n < 10 THEN <<Zero + n>> ELSE Append(Digits(n \div 10), Zero + (n % 10))

\* The minimal decimal representation of an integer.
Decimal(n) == IF n < 0 THEN <<Minus>> \o Digits(-n) ELSE Digits(n)

\* C25: for every word n, the most negative one included,
\* lone_print_integer writes the minimal decimal representation of n: a
\* '-' exactly when n is negative, then the digits of |n| without leading
\* zeros.
C25_PrintsMinimalDecimal ==
    trip.stage = "integer printed" => trip.text = Decimal(trip.n)

\* The number a run of decimal digits stands for.
RECURSIVE NumberOf(_)
NumberOf(digits) ==
    IF digits = << >> THEN 0
    ELSE 10 * NumberOf(SubSeq(digits, 1, Len(digits) - 1)) + (digits[Len(digits)] - Zero)

\* The integer an optional sign and digits stand for, in a word.
Signed(text) ==
    IF text[1] = Minus THEN Wrap(-NumberOf(Tail(text)))
    ELSE IF text[1] = Plus THEN Wrap(NumberOf(Tail(text)))
    ELSE Wrap(NumberOf(text))

\* C26: lone_integer_parse of an optional sign and one or more digits
\* returns the number the digits stand for, negated after a '-' and wrapped
\* to a word; and parsing what lone_print_integer wrote for n, when that is
\* the decimal representation of n, returns n.
C26_ParseAccumulatesAndWraps ==
    /\ trip.stage = "typed parsed" => trip.parsed = Signed(trip.text)
    /\ (trip.stage = "integer parsed" /\ trip.text = Decimal(trip.n)) => trip.parsed = trip.n

\* Digits after a '-' that stand for more than a word holds have been parsed.
C26_NegativeOverflowParsed ==
    /\ trip.stage = "typed parsed" /\ trip.text[1] = Minus
    /\ NumberOf(Tail(trip.text)) > MaxWord + 1
    /\ trip.parsed > 0

\* The addresses of the bytes a value owns, and those of the reader's buffer.
Owned(value) ==
    IF value.pointer = NULL THEN {} ELSE value.pointer..(value.pointer + value.count - 1)
BufferOf(rd) == rd.pointer..(rd.pointer + rd.count - 1)

\* C27: every value ever created by lone_read still holds, after every
\* later raw read, reallocation of the reader's buffer and reset of the
\* reader's position, the bytes it was created with, and its bytes lie
\* neither in the reader's buffer nor in the bytes of another value.
C27_ValuesKeepTheirBytes ==
    \A i \in DOMAIN values :
        /\ values[i].pointer # NULL =>
              Bytes(memory, values[i].pointer, values[i].count) = values[i].bytes
        /\ Owned(values[i]) \cap BufferOf(reader) = {}
        /\ \A j \in DOMAIN values : j # i => Owned(values[i]) \cap Owned(values[j]) = {}

\* The value lone_table_get finds under key in the entries of table itself:
\* NULL when the probe ends at an empty slot or never ends.
Bound(table, key) ==
    LET i == lone_table_entry_find_index_for(key, table.entries, table.capacity) IN
    IF i = Diverges THEN NULL
    ELSE IF table.entries[i].key = NULL THEN NULL
    ELSE table.entries[i].value

\* C28: lone_table_resize, run by lone_table_set because the count has
\* reached half of the capacity, leaves the table with twice the capacity
\* and the same count, and every key the table holds and the old array
\* binds to a value is bound to the same value in the new array.
C28_ResizeKeepsEveryKey ==
    \A t \in DOMAIN tables, slack \in StaleEntries :
        (status = "running" /\ NeedsResize(tables, t)) =>
            LET resized == lone_table_resize(tables[t], tables[t].capacity * 2, slack) IN
            /\ resized.capacity = 2 * tables[t].capacity
            /\ resized.count = tables[t].count
            /\ \A k \in KeyIds :
                  (Holds(t, k) /\ Bound(tables[t], k) # NULL)
                      => Bound(resized, k) = Bound(tables[t], k)

\* C29: lone_table_delete of a key the table holds decrements the count by
\* exactly one, and every other key the table holds and binds to a value
\* is bound to the same value after the call, also when collision runs wrap
\* around the end of the entries array.
C29_DeleteKeepsOtherKeys ==
    [][(last'.op = "delete" /\ last'.found /\ status' = "running"
          /\ Holds(last'.table, last'.key))
          => /\ tables'[last'.table].count = tables[last'.table].count - 1
             /\ \A k \in KeyIds :
                   (/\ ~lone_bytes_equals(k, last'.key)
                    /\ Holds(last'.table, k)
                    /\ Bound(tables[last'.table], k) # NULL)
                       => Bound(tables'[last'.table], k) = Bound(tables[last'.table], k)]_vars

\* The bytes from offset from of input up to the next whitespace byte or
\* the end of the input.
RECURSIVE RunLength(_, _)
RunLength(input, from) ==
    IF from >= Len(input) \/ lone_lexer_match_byte(input[from + 1], Space) THEN 0
    ELSE 1 + RunLength(input, from + 1)

\* C30: the single-pass lexer of part_000 tokenizes every symbol whole: the
\* token is the run of bytes from the symbol's first byte up to the next
\* whitespace byte or the end of the input, and no token is empty.
C30_SymbolsTokenizedWhole ==
    (trip.stage = "lexed" /\ trip.end = "return") =>
        \A i \in DOMAIN trip.tokens :
            /\ trip.tokens[i].count > 0
            /\ trip.tokens[i].kind = "symbol" =>
                  /\ trip.tokens[i].count = RunLength(original, trip.tokens[i].from)
                  /\ trip.tokens[i].bytes
                       = SubSeq(original, trip.tokens[i].from + 1,
                                trip.tokens[i].from + RunLength(original, trip.tokens[i].from))

\* C31: when lone_table_set resizes the table, the insertion that follows
\* goes into the new entries array with the new capacity: after the call
\* the table's array binds the key to the value set.
C31_SetGoesIntoNewArray ==
    (last.op = "set" /\ last.resized /\ status = "running") =>
        Bound(tables[last.table], last.key) = last.value

\* The slot indexes the loop of lone_table_entry_find_index_for reads, from
\* index i on.
RECURSIVE ProbeReads(_, _, _, _, _)
ProbeReads(key, entries, capacity, i, fuel) ==
    IF fuel = 0 THEN {}
    ELSE IF entries[i].key = NULL \/ lone_bytes_equals(entries[i].key, key) THEN {i}
    ELSE {i} \cup ProbeReads(key, entries, capacity,
                             IF i < capacity THEN i + 1 ELSE 0, fuel - 1)

\* C32: every slot lone_table_entry_find_index_for reads while it probes
\* for a key lies in 0 .. capacity-1.
C32_ProbeStaysInArray ==
    \A t \in DOMAIN tables, k \in KeyIds :
        ProbeReads(k, tables[t].entries, tables[t].capacity,
                   lone_table_compute_hash_for(k, tables[t].capacity),
                   tables[t].capacity + 1) \subseteq Slots(tables[t])

\* C33: the raw read lone_read_from_file_descriptor issues next asks for
\* size bytes at buffer + position, and position plus size is at most the
\* allocated size of the buffer.
C33_ReadsStayInBuffer ==
    status = "running" => trip.position + trip.size <= trip.allocated

C35_LinksAgree ==
    \A i \in 1..Len(Blocks) :
        LET block == Blocks[i]
            next  == Load(memory, block + NextField)
            prev  == Load(memory, block + PrevField)
        IN  /\ next # NULL =>
                  (Mapped(memory, next) /\ Load(memory, next + PrevField) = block)
            /\ prev # NULL =>
                  (Mapped(memory, prev) /\ Load(memory, prev + NextField) = block)

\* The slots of the entries array that hold a key.
Occupied(table) == {i \in Slots(table) : table.entries[i].key # NULL}

\* C36: the count of every table equals the number of occupied slots of
\* its entries array, and no two occupied slots hold content-equal keys.
C36_CountIsOccupiedSlots ==
    status = "running" =>
        \A t \in DOMAIN tables :
            /\ tables[t].count = Cardinality(Occupied(tables[t]))
            /\ \A i, j \in Occupied(tables[t]) :
                   lone_bytes_equals(tables[t].entries[i].key, tables[t].entries[j].key)
                       => i = j

\* Whether lone_lexer_consume_text, called at a quote at position, reads
\* *current after ++current at an index that is not below input.count:
\* the byte behind a closing quote that ends the input, or the pointer
\* behind the null pointer when the text is not closed.
TextReadsPast(input, position) == SkipText(input, position + 1) + 1 >= Len(input)

\* Whether lone_lex, from position on, reads a byte that lone_lexer_peek_k
\* has not found below input.count.
RECURSIVE ReadsPastFrom(_, _)
ReadsPastFrom(input, position) ==
    LET c == lone_lexer_peek(input, position) IN
    IF c = NULL THEN FALSE
    ELSE IF lone_lexer_match_byte(input[c], Space) THEN ReadsPastFrom(input, position + 1)
    ELSE IF input[c] = Quote /\ TextReadsPast(input, position) THEN TRUE
    ELSE IF LexToken(input, position, 0).failed THEN FALSE
    ELSE ReadsPastFrom(input, LexToken(input, position, 0).position)

\* C37: the lexer reads only bytes at indexes below input.count, also when
\* a text's closing quote is the last byte or the text is not closed.
C37_LexerReadsInsideInput ==
    trip.stage = "parsed" => ~ReadsPastFrom(original, 0)

\* C38: lone_table_get leaves the allocator's block list and the value
\* store as they were.
C38_GetIsReadOnly ==
    [][last'.op = "get" => (BlockList(memory') = BlockList(memory) /\ values' = values)]_vars

\* C39: lone_lex terminates on every input: each iteration of its loop
\* consumes at least one byte or ends the process, the call ends, and
\* when it returns the lexer position is at most input.count.
C39_LexTerminates ==
    /\ [][(trip.stage = "lexing" /\ trip'.stage # "returned")
             => (trip'.position > trip.position \/ status' = "exit")]_vars
    /\ [](trip.stage = "returned" => trip.position <= Len(original))
    /\ <>(trip.stage # "lexing")

C39_Witness ==
    /\ trip.stage = "returned"
    /\ trip.position = Len(original)
    /\ Len(trip.tokens) = 3
    /\ \E i \in 1..3 : trip.tokens[i].type = "text"
    /\ \E i \in 1..3 : IsParenthesis(trip.tokens[i], RightParenthesis)

\* C40: the entries array of every table holds at least one empty slot,
\* and no probe of lone_table_entry_find_index_for and no shift loop of
\* lone_table_delete runs without end.
C40_ProbesTerminate ==
    /\ status # "hung"
    /\ \A t \in DOMAIN tables :
          /\ \E i \in Slots(tables[t]) : tables[t].entries[i].key = NULL
          /\ \A k \in KeyIds :
                lone_table_entry_find_index_for(k, tables[t].entries, tables[t].capacity)
                    # Diverges

====
